---- MODULE Spec2Model ----
(***************************************************************************)
(* Model of the TAS editor of bxt-rs (src/modules/tas_editor/editor.rs):   *)
(* the run-length encoded script (HLTAS lines) with its split operations,  *)
(* the local simulated-annealing loop and the remote coordinator.          *)
(*                                                                         *)
(* Conventions.  Option<T> is a sequence of length 0 (None) or 1 (Some).   *)
(* Line and frame indices keep the code's 0-based values; a TLA+ sequence  *)
(* is indexed from 1, so line l of the code is lines[l + 1].               *)
(***************************************************************************)
EXTENDS Integers, Sequences, FiniteSets, TLC

VARIABLES
    prefix,                 \* Editor.prefix.lines
    hltas,                  \* Editor.hltas.lines (the body script)
    frames,                 \* Editor.frames
    last_mutation_frames,   \* Editor.last_mutation_frames
    generation,             \* Editor.generation
    temperature,            \* Editor.temperature, in thousandths
    current_iterations,     \* Editor.current_iterations
    iter,                   \* the iterator optimize() returned, while it is alive
    clients,                \* remote workers: idle or busy with a job
    tags,                   \* generation tags of the last two dispatches (history)
    steps,                  \* number of editor operations so far (history)
    last,                   \* record of the last operation (history)
    cap                     \* capture module: STATE and the engine's view of it

vars == <<prefix, hltas, frames, last_mutation_frames, generation, temperature,
          current_iterations, iter, clients, tags, steps, last, cap>>

None == <<>>
Some(x) == <<x>>

Min(a, b) == IF a < b THEN a ELSE b
Max(a, b) == IF a > b THEN a ELSE b

(***************************************************************************)
(* Bounds of the model.                                                    *)
(***************************************************************************)
MaxCount == 3       \* largest frame_count of a segment of an input script
MaxLines == 2       \* most lines of an input script of the script operations

(***************************************************************************)
(* Lines.  A FrameBulk carries the fields the editor reads or writes.      *)
(***************************************************************************)
FrameBulk(count, ft, cmd) ==
    [kind |-> "FrameBulk", frame_count |-> count, frame_time |-> ft,
     use_ |-> FALSE, movement |-> None, leave_ground_action |-> None,
     duck_before_ground |-> None, console_command |-> cmd]

IsFrameBulk(line) == line.kind = "FrameBulk"

RECURSIVE SumCounts(_)
SumCounts(lines) ==
    IF lines = <<>> THEN 0
    ELSE (IF IsFrameBulk(Head(lines)) THEN Head(lines).frame_count ELSE 0)
         + SumCounts(Tail(lines))

\* The number of frames of a script.
TotalFrames(lines) == SumCounts(lines)

\* Vec::insert(i, x), i 0-based
VecInsert(v, i, x) == SubSeq(v, 1, i) \o <<x>> \o SubSeq(v, i + 1, Len(v))

\* Iterator::nth(n), n 0-based
Nth(s, n) == IF n < Len(s) THEN Some(s[n + 1]) ELSE None

\* enumerate().filter_map(FrameBulk).flat_map(repeats): every (l, r) in order
RECURSIVE LineRepeats(_, _)
LineRepeats(lines, l) ==
    IF l >= Len(lines) THEN <<>>
    ELSE (IF IsFrameBulk(lines[l + 1])
          THEN [i \in 1..lines[l + 1].frame_count |-> <<l, i - 1>>]
          ELSE <<>>)
         \o LineRepeats(lines, l + 1)

line_and_repeat_at_frame(lines, frame) == Nth(LineRepeats(lines, 0), frame)

\* A plausible slip: the repeat is given back, the line boundary is not made.
split_at_frame_noinsert(lines, frame) ==
    LET lr == line_and_repeat_at_frame(lines, frame) IN
    IF lr = None THEN [lines |-> lines, ret |-> None]
    ELSE [lines |-> lines, ret |-> Some(lr[1][1])]

\* A plausible slip: an index past the end is clamped to the last segment.
split_at_frame_clamp(lines, frame) ==
    LET all == LineRepeats(lines, 0)
        lr  == IF all = <<>> THEN None
               ELSE Nth(all, Min(frame, Len(all) - 1)) IN
    IF lr = None THEN [lines |-> lines, ret |-> None]
    ELSE LET l == lr[1][1]
             r == lr[1][2]
             frame_bulk == lines[l + 1]
         IN  IF r = 0 THEN [lines |-> lines, ret |-> Some(l)]
             ELSE [lines |-> VecInsert(
                       [lines EXCEPT ![l + 1].frame_count = r], l + 1,
                       [frame_bulk EXCEPT !.frame_count = frame_bulk.frame_count - r]),
                   ret |-> Some(l + 1)]

\* A plausible slip: the left part keeps the whole frame_count.
split_at_frame_leftkeeps(lines, frame) ==
    LET lr == line_and_repeat_at_frame(lines, frame) IN
    IF lr = None THEN [lines |-> lines, ret |-> None]
    ELSE LET l == lr[1][1]
             r == lr[1][2]
             frame_bulk == lines[l + 1]
         IN  IF r = 0 THEN [lines |-> lines, ret |-> Some(l)]
             ELSE [lines |-> VecInsert(lines, l + 1,
                       [frame_bulk EXCEPT !.frame_count = frame_bulk.frame_count - r]),
                   ret |-> Some(l + 1)]

\* A plausible slip: the right part is a fresh frame bulk, with the frame
\* time and the console command only.
split_at_frame_fresh(lines, frame) ==
    LET lr == line_and_repeat_at_frame(lines, frame) IN
    IF lr = None THEN [lines |-> lines, ret |-> None]
    ELSE LET l == lr[1][1]
             r == lr[1][2]
             frame_bulk == lines[l + 1]
         IN  IF r = 0 THEN [lines |-> lines, ret |-> Some(l)]
             ELSE [lines |-> VecInsert(
                       [lines EXCEPT ![l + 1].frame_count = r], l + 1,
                       FrameBulk(frame_bulk.frame_count - r, frame_bulk.frame_time,
                                 frame_bulk.console_command)),
                   ret |-> Some(l + 1)]

\* split_at_frame: the lines after the call and the index of the line of the
\* returned frame bulk (None when frame is out of range).
split_at_frame(lines, frame) ==
    LET lr == line_and_repeat_at_frame(lines, frame) IN
    IF lr = None THEN [lines |-> lines, ret |-> None]
    ELSE LET l == lr[1][1]
             r == lr[1][2]
             frame_bulk == lines[l + 1]
         IN  IF r = 0 THEN [lines |-> lines, ret |-> Some(l)]
             ELSE LET new_frame_bulk ==
                          [frame_bulk EXCEPT !.frame_count = frame_bulk.frame_count - r]
                  IN  [lines |-> VecInsert(
                           [lines EXCEPT ![l + 1].frame_count = r], l + 1,
                           new_frame_bulk),
                       ret |-> Some(l + 1)]

\* A plausible slip: the split at frame + 1 is left out.
split_single_at_frame_nonext(lines, frame) == split_at_frame(lines, frame)

split_single_at_frame(lines, frame) ==
    split_at_frame(split_at_frame(lines, frame + 1).lines, frame)

\* The first frame of the line with index l: the frames of the lines before it.
FirstFrameOfLine(lines, l) == TotalFrames(SubSeq(lines, 1, l))

(***************************************************************************)
(* The script operations on their own: every script of at most MaxLines    *)
(* lines, every frame index up to one past the end.                        *)
(***************************************************************************)
ScriptLines ==
    {FrameBulk(c, "0.001", None) : c \in 1..MaxCount}
    \cup {FrameBulk(2, "0.001", Some("cmd")), [kind |-> "Comment"]}

Scripts == UNION {[1..n -> ScriptLines] : n \in 0..MaxLines}

NoCall == [op |-> "none"]

\* STATE before the capture module is used: State::Idle
NoCapture == [state |-> "Idle"]

EditorIdle ==
    /\ prefix = <<>>
    /\ frames = <<>>
    /\ last_mutation_frames = None
    /\ generation = 0
    /\ cap = NoCapture
    /\ temperature = 0
    /\ current_iterations = 0
    /\ iter = None
    /\ clients = <<>>
    /\ tags = <<>>
    /\ steps = 0

ScriptInit ==
    /\ hltas \in Scripts
    /\ last = NoCall
    /\ EditorIdle

ScriptFrames == 0..(TotalFrames(hltas) + 1)

Call(op, frame, res, twice) ==
    /\ hltas' = res.lines
    /\ last' = [op |-> op, frame |-> frame, ret |-> res.ret, before |-> hltas,
                twice |-> twice,
                first_split |-> twice /\ Len(hltas) > Len(last.before)]
    /\ UNCHANGED <<cap, prefix, frames, last_mutation_frames, generation, temperature,
                   current_iterations, iter, clients, tags, steps>>

CallLineAndRepeat ==
    \E frame \in ScriptFrames :
        Call("line_and_repeat_at_frame", frame,
             [lines |-> hltas, ret |-> line_and_repeat_at_frame(hltas, frame)], FALSE)

\* twice: this call repeats the call before it (first_split: which split a segment)
CallSplitAtFrame ==
    \E frame \in ScriptFrames :
        Call("split_at_frame", frame, split_at_frame(hltas, frame),
             last.op = "split_at_frame" /\ last.frame = frame)

CallSplitSingleAtFrame ==
    \E frame \in ScriptFrames :
        Call("split_single_at_frame", frame, split_single_at_frame(hltas, frame), FALSE)

ScriptNext == CallLineAndRepeat \/ CallSplitAtFrame \/ CallSplitSingleAtFrame

ScriptSpec == ScriptInit /\ [][ScriptNext]_vars

(***************************************************************************)
(* Claims about the script operations (checked under ScriptSpec).          *)
(***************************************************************************)
InRange == last.frame < TotalFrames(last.before)

\* C3: after split_at_frame(frame) with frame smaller than the total frame
\* count, line_and_repeat_at_frame(frame) gives repeat 0 and the sum of the
\* frame_counts is what it was before the split.
C3_SplitThenLocate ==
    (last.op = "split_at_frame" /\ InRange) =>
        /\ line_and_repeat_at_frame(hltas, last.frame) # None
        /\ line_and_repeat_at_frame(hltas, last.frame)[1][2] = 0
        /\ TotalFrames(hltas) = TotalFrames(last.before)

\* a split inside a segment happened
C3_Witness ==
    /\ last.op = "split_at_frame"
    /\ InRange
    /\ Len(hltas) = Len(last.before) + 1

\* C4: split_at_frame(frame) applied a second time leaves the lines exactly as
\* the first application left them.
C4_SplitIdempotent ==
    (last.op = "split_at_frame" /\ last.twice /\ InRange) => hltas = last.before

\* the second of two equal calls, the first of which split a segment
C4_Witness ==
    /\ last.op = "split_at_frame"
    /\ last.twice
    /\ last.first_split
    /\ InRange

\* C5: for every in-range frame split_single_at_frame(frame) returns a segment
\* that starts at frame and has frame_count 1, at the last frame too.
C5_SplitSingle ==
    (last.op = "split_single_at_frame" /\ InRange) =>
        /\ last.ret # None
        /\ IsFrameBulk(hltas[last.ret[1] + 1])
        /\ hltas[last.ret[1] + 1].frame_count = 1
        /\ FirstFrameOfLine(hltas, last.ret[1]) = last.frame

\* the script's last frame, cut out of a longer segment
C5_Witness ==
    /\ last.op = "split_single_at_frame"
    /\ last.frame + 1 = TotalFrames(last.before)
    /\ Len(hltas) = Len(last.before) + 1

\* C6: for every frame index at or past the total frame count,
\* line_and_repeat_at_frame and split_at_frame return None and the lines are
\* left as they were.
C6_OutOfRange ==
    (last.op \in {"line_and_repeat_at_frame", "split_at_frame"} /\ ~InRange) =>
        /\ last.ret = None
        /\ hltas = last.before

\* split_at_frame called with the total frame count of a script that has frames
C6_Witness ==
    /\ last.op = "split_at_frame"
    /\ last.frame = TotalFrames(last.before)
    /\ last.frame > 0

(***************************************************************************)
(* Mutation operators.  A draw is the outcome of the random samples one    *)
(* mutation takes, in the order the code takes them.                       *)
(***************************************************************************)
U32Bits == 4            \* u32 is modelled U32Bits wide
U32_MAX == 2 ^ U32Bits - 1

Strafe(type, dir) == [am |-> "Strafe", type_ |-> type, dir |-> dir]
Dir(name, n) == [d |-> name, n |-> n]
LeaveGroundAction(speed, times, type, zero_ms) ==
    [speed |-> speed, times |-> times, type_ |-> type, zero_ms |-> zero_ms]

Draw(type, left, invert, yaw_delta, count_delta, use, dbg, lga, any) ==
    [type_ |-> type, left |-> left, invert |-> invert, yaw_delta |-> yaw_delta,
     count_delta |-> count_delta, use |-> use, dbg |-> dbg, lga |-> lga, any |-> any]

\* the rng outcomes the model draws from
RngDraws ==
    { Draw("MaxAccel", TRUE, FALSE, 1, -1, FALSE, FALSE, "keep", FALSE),
      Draw("MaxDeccel", FALSE, TRUE, -90, -10, TRUE, TRUE, "Jump", TRUE) }

\* the boundary shifts the model draws from (gen_range over the computed range)
ShiftDraws == {-1, 0, 1}

mutate_action_keys(frame_bulk, d) ==
    IF d.use THEN [frame_bulk EXCEPT !.use_ = ~@] ELSE frame_bulk

mutate_auto_actions(frame_bulk, d) ==
    LET fb1 == IF d.dbg
               THEN [frame_bulk EXCEPT !.duck_before_ground =
                        IF @ # None THEN None
                        ELSE Some([times |-> "UnlimitedWithinFrameBulk"])]
               ELSE frame_bulk
        speed == IF d.any THEN "Any" ELSE "Optimal"
    IN  IF d.lga = "keep" THEN fb1
        ELSE [fb1 EXCEPT !.leave_ground_action =
                 IF d.lga = "None" THEN None
                 ELSE IF d.lga = "DuckTap"
                      THEN Some(LeaveGroundAction(speed, "UnlimitedWithinFrameBulk",
                                    "DuckTap", fb1.frame_time = "0.001"))
                      ELSE Some(LeaveGroundAction(speed, "UnlimitedWithinFrameBulk",
                                    "Jump", FALSE))]

mutate_frame_bulk(frame_bulk, d) ==
    LET dir == IF d.type_ = "MaxDeccel" THEN Dir("Best", 0)
               ELSE IF d.left THEN Dir("Left", 0) ELSE Dir("Right", 0)
        fb1 == [frame_bulk EXCEPT !.movement = Some(Strafe(d.type_, dir))]
    IN  mutate_auto_actions(mutate_action_keys(fb1, d), d)

\* the lines after mutate_frame(rng, hltas, frame)
mutate_frame(lines, frame, d) ==
    LET first ==
            IF frame > 0
            THEN LET l == line_and_repeat_at_frame(lines, frame)[1][1]
                     sp == split_at_frame(lines, frame)
                 IN  IF l = 0
                     THEN [sp.lines EXCEPT ![sp.ret[1] + 1].console_command = None]
                     ELSE sp.lines
            ELSE lines
        single == split_single_at_frame(first, frame)
    IN  [single.lines EXCEPT ![single.ret[1] + 1] = mutate_frame_bulk(@, d)]

\* the line indices (0-based) of the frame bulks, in order
RECURSIVE FrameBulkLines(_, _)
FrameBulkLines(lines, l) ==
    IF l >= Len(lines) THEN <<>>
    ELSE (IF IsFrameBulk(lines[l + 1]) THEN <<l>> ELSE <<>>)
         \o FrameBulkLines(lines, l + 1)

Clamp(x, lo, hi) == Min(Max(x, lo), hi)

\* the mutation of the strafe settings of mutate_single_frame_bulk
mutate_strafe(frame_bulk, d) ==
    IF frame_bulk.movement = None \/ frame_bulk.movement[1].am # "Strafe"
    THEN frame_bulk
    ELSE LET dir == frame_bulk.movement[1].dir
             dir1 ==
                IF dir.d = "Yaw" THEN Dir("Yaw", dir.n + d.yaw_delta)
                ELSE IF dir.d \in {"LeftRight", "RightLeft"}
                THEN LET count == Clamp(dir.n + d.count_delta, 1, U32_MAX) IN
                     IF d.invert
                     THEN Dir(IF dir.d = "LeftRight" THEN "RightLeft" ELSE "LeftRight",
                              count)
                     ELSE Dir(dir.d, count)
                ELSE IF dir.d \in {"Left", "Right"}
                THEN (IF d.invert
                      THEN Dir(IF dir.d = "Left" THEN "Right" ELSE "Left", 0)
                      ELSE dir)
                ELSE dir
         IN  [frame_bulk EXCEPT !.movement = Some(Strafe(d.type_, dir1))]

\* whether mutate_single_frame_bulk moves the boundary after frame bulk index
CanShift(lines, index) ==
    LET fbl == FrameBulkLines(lines, 0) IN
    /\ index + 1 < Len(fbl)
    /\ lines[fbl[index + 1] + 1].frame_time = lines[fbl[index + 2] + 1].frame_time

\* frame_count_difference_range: the half-open range the shift is drawn from
ShiftRange(lines, index) ==
    LET fbl == FrameBulkLines(lines, 0)
        next_count == lines[fbl[index + 2] + 1].frame_count
        max_frame_count_difference == Min(next_count - 1, 10)
        min_frame_count_difference == Max(next_count - U32_MAX, -10)
    IN  min_frame_count_difference .. (max_frame_count_difference - 1)

\* A plausible slip: the frame count is mutated like the count of a strafe
\* direction, with no look at the frame bulk that follows.
mutate_single_frame_bulk_lines_alone(lines, index, d, shift) ==
    LET li == FrameBulkLines(lines, 0)[index + 1] IN
    [lines EXCEPT ![li + 1] =
        [mutate_auto_actions(mutate_action_keys(mutate_strafe(@, d), d), d) EXCEPT
            !.frame_count = Clamp(@ + d.count_delta, 1, U32_MAX)]]

\* A plausible slip: the next frame bulk gives what the rng drew, not what
\* the chosen frame bulk took after clamping.
mutate_single_frame_bulk_lines_drawn(lines, index, d, shift) ==
    LET fbl == FrameBulkLines(lines, 0)
        li == fbl[index + 1]
        frame_bulk ==
            mutate_auto_actions(mutate_action_keys(mutate_strafe(lines[li + 1], d), d), d)
        lines1 == [lines EXCEPT ![li + 1] = frame_bulk]
    IN  IF CanShift(lines1, index)
        THEN [lines1 EXCEPT
                 ![li + 1].frame_count = Clamp(@ + shift, 1, U32_MAX),
                 ![fbl[index + 2] + 1].frame_count = @ - shift]
        ELSE lines1

\* the lines after mutate_single_frame_bulk with the frame bulk index, the
\* draw d and the boundary shift the rng gave
mutate_single_frame_bulk_lines(lines, index, d, shift) ==
    LET fbl == FrameBulkLines(lines, 0)
        li == fbl[index + 1]
        frame_bulk ==
            mutate_auto_actions(mutate_action_keys(mutate_strafe(lines[li + 1], d), d), d)
        lines1 == [lines EXCEPT ![li + 1] = frame_bulk]
    IN  IF CanShift(lines1, index)
        THEN LET ni == fbl[index + 2]
                 orig_count == frame_bulk.frame_count
                 count == Clamp(orig_count + shift, 1, U32_MAX)
                 difference == orig_count - count
             IN  [lines1 EXCEPT ![li + 1].frame_count = count,
                                ![ni + 1].frame_count = @ + difference]
        ELSE lines1

\* A plausible slip: take(index + 1), the chosen frame bulk is counted as well.
mutate_single_frame_bulk_late(lines, index, d, shift) ==
    LET after == mutate_single_frame_bulk_lines(lines, index, d, shift) IN
    [lines |-> after,
     frame |-> FirstFrameOfLine(after, FrameBulkLines(after, 0)[index + 1] + 1)]

\* mutate_single_frame_bulk: the lines after it and the frame it returns, the
\* sum of the frame counts of the frame bulks before the chosen one
mutate_single_frame_bulk(lines, index, d, shift) ==
    LET after == mutate_single_frame_bulk_lines(lines, index, d, shift) IN
    [lines |-> after,
     frame |-> FirstFrameOfLine(after, FrameBulkLines(after, 0)[index + 1])]

\* mutate_single_frame_bulk panics: the range the shift is drawn from is
\* empty, or the count of the next frame bulk leaves 1..u32::MAX
mutate_single_frame_bulk_panics(lines, index, d, shift) ==
    /\ CanShift(lines, index)
    /\ LET fbl == FrameBulkLines(lines, 0)
           orig_count == lines[fbl[index + 1] + 1].frame_count
           next_count == lines[fbl[index + 2] + 1].frame_count
           difference == orig_count - Clamp(orig_count + shift, 1, U32_MAX)
       IN  \/ ShiftRange(lines, index) = {}
           \/ next_count + difference < 1
           \/ next_count + difference > U32_MAX

(***************************************************************************)
(* The mutations on their own, applied once to every small body.           *)
(***************************************************************************)
MutateLines ==
    {FrameBulk(c, "0.001", None) : c \in 1..MaxCount}
    \cup {FrameBulk(U32_MAX, "0.001", None),
          FrameBulk(U32_MAX - 1, "0.001", None),
          FrameBulk(1, "0.004", None),
          FrameBulk(2, "0.001", Some("cmd")),
          [FrameBulk(2, "0.001", None) EXCEPT
              !.movement = Some(Strafe("MaxAngle", Dir("LeftRight", 2)))],
          [kind |-> "Comment"]}

\* bodies: the first line is a frame bulk
MutateBodies ==
    {b \in UNION {[1..n -> MutateLines] : n \in 1..MaxLines} : IsFrameBulk(b[1])}

MutateInit ==
    /\ hltas \in MutateBodies
    /\ last = NoCall
    /\ EditorIdle

\* the shifts the rng can give for the boundary after frame bulk index
Shifts(lines, index) ==
    IF CanShift(lines, index) /\ ShiftRange(lines, index) # {}
    THEN {sh \in ShiftRange(lines, index) :
            \/ sh \in ShiftDraws
            \/ sh = -10
            \/ sh = 9
            \/ sh + 1 \notin ShiftRange(lines, index)
            \/ sh - 1 \notin ShiftRange(lines, index)}
    ELSE {0}

CallMutateSingleFrameBulk ==
    /\ last = NoCall
    /\ \E index \in 0..(Len(FrameBulkLines(hltas, 0)) - 1), d \in RngDraws :
       \E shift \in Shifts(hltas, index) :
       \E panicked \in {mutate_single_frame_bulk_panics(hltas, index, d, shift)} :
         /\ hltas' = IF panicked THEN hltas
                     ELSE mutate_single_frame_bulk(hltas, index, d, shift).lines
         /\ last' = [op |-> "mutate_single_frame_bulk", index |-> index, d |-> d,
                     shift |-> shift, before |-> hltas, panicked |-> panicked]
    /\ UNCHANGED <<cap, prefix, frames, last_mutation_frames, generation, temperature,
                   current_iterations, iter, clients, tags, steps>>

CallMutateFrame ==
    /\ last = NoCall
    /\ \E frame \in 0..(TotalFrames(hltas) - 1), d \in RngDraws :
         /\ hltas' = mutate_frame(hltas, frame, d)
         /\ last' = [op |-> "mutate_frame", frame |-> frame, d |-> d, before |-> hltas]
    /\ UNCHANGED <<cap, prefix, frames, last_mutation_frames, generation, temperature,
                   current_iterations, iter, clients, tags, steps>>

MutateNext == CallMutateSingleFrameBulk \/ CallMutateFrame

MutateSpec == MutateInit /\ [][MutateNext]_vars

(***************************************************************************)
(* Simulation.  A state is the sequence of the settings of the ticks       *)
(* simulated so far, so two states are equal exactly when every tick had   *)
(* the same settings; lines that are no frame bulk take no tick.           *)
(***************************************************************************)
TickSetting(frame_bulk) ==
    [frame_time |-> frame_bulk.frame_time, use_ |-> frame_bulk.use_,
     movement |-> frame_bulk.movement,
     leave_ground_action |-> frame_bulk.leave_ground_action,
     duck_before_ground |-> frame_bulk.duck_before_ground]

RECURSIVE Ticks(_)
Ticks(lines) ==
    IF lines = <<>> THEN <<>>
    ELSE (IF IsFrameBulk(Head(lines))
          THEN [i \in 1..Head(lines).frame_count |-> TickSetting(Head(lines))]
          ELSE <<>>)
         \o Ticks(Tail(lines))

Frame(parameters, state) == [parameters |-> parameters, state |-> state]

initial_frame == Frame([frame_time |-> "initial"], <<>>)

RECURSIVE SimulateFrom(_, _, _)
SimulateFrom(state, ticks, k) ==
    IF k >= Len(ticks) THEN <<>>
    ELSE LET next == Append(state, ticks[k + 1]) IN
         <<Frame([frame_time |-> ticks[k + 1].frame_time], next)>>
         \o SimulateFrom(next, ticks, k + 1)

\* Simulator::new(tracer, frames, lines): resumes after the frames given,
\* one frame for every tick of the script that is left
Simulator(fs, lines) == SimulateFrom(fs[Len(fs)].state, Ticks(lines), Len(fs) - 1)

\* the whole simulation of a script from the initial frame
FullSimulation(first, lines) == <<first>> \o Simulator(<<first>>, lines)

(***************************************************************************)
(* The Editor.                                                             *)
(***************************************************************************)
MaxSteps == 3               \* operations in a run
InitGeneration == 4         \* the generation the Editor is created with
InitTemperature == 1000     \* the temperature it is created with (thousandths)
CoolingRate == 500          \* cooling_rate (thousandths)
MaxIterations == 0          \* max_iterations

InitCommand == Some("bxt_tas_optim_init")

\* the scripts and first frames the Editor is created from
EditorInputs ==
    { [script |-> << FrameBulk(1, "0.001", None),
                     FrameBulk(2, "0.001", InitCommand),
                     [kind |-> "Comment"],
                     FrameBulk(1, "0.004", Some("cmd")) >>,
       first_frame |-> 1],
      [script |-> << [FrameBulk(1, "0.001", InitCommand) EXCEPT
                         !.movement = Some(Strafe("MaxAccel", Dir("Yaw", 0))),
                         !.use_ = TRUE],
                     [FrameBulk(2, "0.001", None) EXCEPT
                         !.movement = Some(Strafe("MaxAngle", Dir("LeftRight", 2))),
                         !.duck_before_ground =
                             Some([times |-> "UnlimitedWithinFrameBulk"])] >>,
       first_frame |-> 0] }

\* Editor::new: the prefix and the body cut out of the script
EditorNew(script, first_frame) ==
    LET l == line_and_repeat_at_frame(script, first_frame)[1][1]
        body == SubSeq(script, l + 1, Len(script))
    IN  [prefix |-> SubSeq(script, 1, l),
         hltas |-> [body EXCEPT ![1].console_command = None]]

\* Editor::new(.., temperature, cooling_rate, max_iterations,
\* current_iterations): the Editor it returns
EditorConstructed(temp, iterations) ==
    /\ \E in \in EditorInputs :
         /\ prefix = EditorNew(in.script, in.first_frame).prefix
         /\ hltas = EditorNew(in.script, in.first_frame).hltas
    /\ frames = <<initial_frame>>
    /\ last_mutation_frames = None
    /\ generation = InitGeneration
    /\ cap = NoCapture
    /\ temperature = temp
    /\ current_iterations = iterations
    /\ iter = None
    /\ tags = <<>>
    /\ steps = 0
    /\ last = NoCall

EditorInit == EditorConstructed(InitTemperature, 0)

\* the frames after simulate_all
simulate_all(fs, lines) == fs \o Simulator(fs, lines)

(***************************************************************************)
(* save: the body is appended to the prefix, the whole script is written,  *)
(* and the prefix is cut back to its length.                               *)
(***************************************************************************)

\* A plausible slip: the prefix is not cut back after writing.
save_notruncate(pre, body) ==
    [prefix |-> pre \o body, written |-> pre \o body]

\* the prefix after save, and the lines handed to the writer
save(pre, body) ==
    LET len == Len(pre)
        extended == pre \o body
    IN  [prefix |-> SubSeq(extended, 1, len), written |-> extended]

SavePrefixes ==
    {<<>>,
     <<FrameBulk(1, "0.001", None)>>,
     <<FrameBulk(2, "0.001", Some("cmd")), [kind |-> "Comment"]>>}

SaveInit ==
    /\ prefix \in SavePrefixes
    /\ hltas \in MutateBodies
    /\ frames = <<initial_frame>>
    /\ last_mutation_frames = None
    /\ generation = InitGeneration
    /\ cap = NoCapture
    /\ temperature = InitTemperature
    /\ current_iterations = 0
    /\ iter = None
    /\ clients = <<>>
    /\ tags = <<>>
    /\ steps = 0
    /\ last = NoCall

\* save(writer): the writer may fail or not
Save ==
    /\ last = NoCall
    /\ \E ok \in BOOLEAN :
       \E sv \in {save(prefix, hltas)} :
         /\ prefix' = sv.prefix
         /\ last' = [op |-> "save", ok |-> ok, written |-> sv.written,
                     before |-> [prefix |-> prefix, hltas |-> hltas]]
    /\ UNCHANGED <<cap, hltas, frames, last_mutation_frames, generation, temperature,
                   current_iterations, iter, clients, tags, steps>>

SaveSpec == SaveInit /\ [][Save]_vars

SimulateAll ==
    /\ steps < MaxSteps
    /\ frames' = simulate_all(frames, hltas)
    /\ iter' = None
    /\ steps' = steps + 1
    /\ last' = [op |-> "simulate_all"]
    /\ UNCHANGED <<cap, prefix, hltas, last_mutation_frames, generation, temperature,
                   current_iterations, clients, tags>>

\* the arguments optimize() is called with
OptimizeArgs ==
    { [frames |-> 0, random_frames_to_change |-> 1, change_single_frames |-> TRUE],
      [frames |-> 2, random_frames_to_change |-> 2, change_single_frames |-> TRUE],
      [frames |-> 0, random_frames_to_change |-> 2, change_single_frames |-> FALSE] }

\* high: the end of the range the mutated frame is drawn from
High(fs, frames_arg) ==
    IF frames_arg > 0 THEN Min(Len(fs) - 1, frames_arg) ELSE Len(fs) - 1

\* optimize(): simulates and returns the iterator (None without frames)
OptimizeWith(Args) ==
    \E args \in Args :
        /\ steps < MaxSteps
        /\ frames' = simulate_all(frames, hltas)
        /\ iter' = IF Len(frames') = 1 THEN None
                   ELSE Some([high |-> High(frames', args.frames),
                              random_frames_to_change |-> args.random_frames_to_change,
                              change_single_frames |-> args.change_single_frames])
        /\ steps' = steps + 1
        /\ last' = [op |-> "optimize"]
        /\ UNCHANGED <<cap, prefix, hltas, last_mutation_frames, generation, temperature,
                       current_iterations, clients, tags>>

Optimize == OptimizeWith(OptimizeArgs)

\* what the rng gives for one mutation: the frame (or frame bulk index), the
\* draw and the boundary shift
Choices(lines, high, single) ==
    IF single
    THEN {[at |-> f, d |-> d, shift |-> 0] : f \in 0..(high - 1), d \in RngDraws}
    ELSE {[at |-> i, d |-> d, shift |-> sh] :
            i \in 0..(Len(FrameBulkLines(lines, 0)) - 1), d \in RngDraws,
            sh \in ShiftDraws}

\* the shift is one the rng can give for the lines at hand
ShiftOk(lines, c) ==
    IF CanShift(lines, c.at) THEN c.shift \in ShiftRange(lines, c.at) ELSE c.shift = 0

\* "Change several frames": the mutated clone and the minimum stale frame
RECURSIVE ApplyMutations(_, _, _, _)
ApplyMutations(lines, single, choices, stale_frame) ==
    IF choices = <<>> THEN [ok |-> TRUE, lines |-> lines, stale_frame |-> stale_frame]
    ELSE LET c == Head(choices) IN
         IF single
         THEN ApplyMutations(mutate_frame(lines, c.at, c.d), single, Tail(choices),
                             Min(stale_frame, c.at))
         ELSE IF ~ShiftOk(lines, c)
         THEN [ok |-> FALSE, lines |-> lines, stale_frame |-> stale_frame]
         ELSE LET m == mutate_single_frame_bulk(lines, c.at, c.d, c.shift) IN
              ApplyMutations(m.lines, single, Tail(choices), Min(stale_frame, m.frame))

\* the results the objective gives; a Worse difference is at most 0 (thousandths)
Better == [r |-> "Better", difference |-> 0]
Worse(d) == [r |-> "Worse", difference |-> d]
Invalid == [r |-> "Invalid", difference |-> 0]
AttemptResults == {Better, Worse(-500), Worse(0), Invalid}

\* whether rng.gen::<f32>() < exp(difference / temperature) can come out as
\* chance: the factor is 1 for a difference of 0 and 0 for a temperature of 0
ChanceOk(result, temp, chance) ==
    IF result.difference = 0 THEN chance
    ELSE IF temp = 0 THEN ~chance
    ELSE TRUE

\* assert!(acceptance <= 1_f32) fails, acceptance being
\* (difference / temperature).exp(): above 1 for a quotient above 0, and NaN,
\* which is not <= 1, for 0 / 0
acceptance_panics(result, temp) ==
    /\ result.r = "Worse"
    /\ \/ temp > 0 /\ result.difference > 0
       \/ temp < 0 /\ result.difference < 0
       \/ temp = 0 /\ result.difference >= 0

\* A plausible slip: an Invalid result goes the way of a Worse one.
optimize_accepts_invalid(result, chance) ==
    result.r = "Better" \/ chance

\* the match of optimize(): whether the candidate replaces hltas and frames
optimize_accepts(result, chance) ==
    IF result.r = "Better" THEN TRUE
    ELSE IF result.r = "Worse" THEN chance
    ELSE FALSE

\* the candidate of one iteration: the mutated clone, its stale frame and its
\* frames (the history up to the stale frame, then the simulation)
Candidate(lines, fs, single, choices) ==
    LET m == ApplyMutations(lines, single, choices, Len(fs) - 1)
        kept == SubSeq(fs, 1, m.stale_frame + 1)
    IN  [ok |-> m.ok, lines |-> m.lines, stale_frame |-> m.stale_frame,
         frames |-> IF m.ok THEN kept \o Simulator(kept, m.lines) ELSE <<>>]

\* one call of the iterator optimize() returned
IterNext ==
    /\ iter # None
    /\ steps < MaxSteps
    /\ \E choices \in [1..iter[1].random_frames_to_change ->
                          Choices(hltas, iter[1].high, iter[1].change_single_frames)] :
       \E c \in {Candidate(hltas, frames, iter[1].change_single_frames, choices)} :
        /\ c.ok
        /\ \E result \in AttemptResults, chance \in BOOLEAN :
           \E panicked \in {acceptance_panics(result, temperature)} :
           \E accepted \in {~panicked /\ optimize_accepts(result, chance)} :
            /\ ChanceOk(result, temperature, chance)
            /\ hltas' = IF accepted THEN c.lines ELSE hltas
            /\ frames' = IF accepted THEN c.frames ELSE frames
            /\ last_mutation_frames' =
                   IF accepted \/ panicked THEN last_mutation_frames
                   ELSE Some(c.frames)
            /\ last' = [op |-> "optimize_next", result |-> result,
                        accepted |-> accepted, hltas |-> c.lines,
                        frames |-> c.frames, stale_frame |-> c.stale_frame,
                        temperature |-> temperature, panicked |-> panicked]
            /\ steps' = IF panicked THEN MaxSteps ELSE steps + 1
    /\ current_iterations' = current_iterations + 1
    /\ UNCHANGED <<cap, prefix, generation, temperature, iter, clients, tags>>

\* temperature * cooling_rate in f32, rounded to the nearest value the
\* format has, ties to even: the smallest positive temperature times 0.5
\* is 0
Cooled(temp) ==
    LET product == temp * CoolingRate
        q == product \div 1000
        rest == product % 1000
    IN  IF 2 * rest > 1000 \/ (2 * rest = 1000 /\ q % 2 = 1) THEN q + 1 ELSE q

\* A plausible slip: >= for >, the temperature drops one iteration early.
update_temperature_early ==
    /\ steps < MaxSteps
    /\ IF current_iterations >= MaxIterations
       THEN /\ temperature' = Cooled(temperature)
            /\ current_iterations' = 0
       ELSE UNCHANGED <<temperature, current_iterations>>
    /\ iter' = None
    /\ steps' = steps + 1
    /\ last' = [op |-> "update_temperature"]
    /\ UNCHANGED <<cap, prefix, hltas, frames, last_mutation_frames, generation,
                   clients, tags>>

update_temperature ==
    /\ steps < MaxSteps
    /\ IF current_iterations > MaxIterations
       THEN /\ temperature' = Cooled(temperature)
            /\ current_iterations' = 0
       ELSE UNCHANGED <<temperature, current_iterations>>
    /\ iter' = None
    /\ steps' = steps + 1
    /\ last' = [op |-> "update_temperature"]
    /\ UNCHANGED <<cap, prefix, hltas, frames, last_mutation_frames, generation,
                   clients, tags>>

LocalInit == EditorInit /\ clients = <<>>

LocalNext == SimulateAll \/ Optimize \/ IterNext \/ update_temperature

LocalSpec == LocalInit /\ [][LocalNext]_vars

(***************************************************************************)
(* The local loop late in the annealing: the Editor is created with a      *)
(* temperature that has cooled down to the smallest positive value, at     *)
(* the start or at the end of a round of iterations.                       *)
(***************************************************************************)
LowTemperature == 1

AnnealInit ==
    /\ \E iterations \in {0, MaxIterations + 1} :
         EditorConstructed(LowTemperature, iterations)
    /\ clients = <<>>

AnnealSpec == AnnealInit /\ [][LocalNext]_vars

(***************************************************************************)
(* Claims about the local loop (checked under LocalSpec).                  *)
(***************************************************************************)

\* C8: after any sequence of local optimizer iterations frames is the full
\* simulation of the body from frames[0]: resuming at the reported stale
\* frame gives what simulating from frame zero gives.
C8_FramesAreFullSimulation ==
    Len(frames) > 1 => frames = FullSimulation(frames[1], hltas)

\* an accepted candidate whose history was resumed after frame zero, on top of
\* an earlier accepted mutation of the first tick
C8_Witness ==
    /\ last.op = "optimize_next"
    /\ last.accepted
    /\ last.stale_frame > 0
    /\ \A in \in EditorInputs :
         frames[2].state[1] # TickSetting(EditorNew(in.script, in.first_frame).hltas[1])

\* C9: in one local iteration a Better result replaces body and frames with the
\* candidate's, an Invalid result replaces neither and stores the candidate
\* frames as preview, a Worse result does the one or the other; body and frames
\* are never replaced one without the other.
C9_AcceptReplacesBoth ==
    [][ last'.op = "optimize_next" =>
          LET replaced == hltas' = last'.hltas /\ frames' = last'.frames
              kept == /\ hltas' = hltas
                      /\ frames' = frames
                      /\ last_mutation_frames' = Some(last'.frames)
          IN  /\ last'.result.r = "Better" => replaced
              /\ last'.result.r = "Invalid" => kept
              /\ last'.result.r = "Worse" => replaced \/ kept
              /\ (hltas' # hltas \/ frames' # frames) => replaced ]_vars

\* a Worse candidate that was accepted and one that was rejected into the preview
C9_Witness ==
    /\ last.op = "optimize_next"
    /\ last.result = Worse(-500)
    /\ last.accepted
    /\ last_mutation_frames # None
    /\ frames = last.frames

(***************************************************************************)
(* Remote simulation.  The workers, the transport and what a worker sends  *)
(* back stand for the remote module and the remote game clients.           *)
(***************************************************************************)
NClients == 2               \* remote clients
U16 == 65536                \* generation is a u16

Clients == 1..NClients

IdleClient == [state |-> "idle", hltas |-> <<>>, generation |-> 0, frames |-> <<>>]

\* A plausible slip: every job is stamped with the generation after.
Job_next(payload, gen) ==
    [state |-> "busy", hltas |-> payload, generation |-> (gen + 1) % U16,
     frames |-> <<>>]

\* (hltas, generation): what a producer closure hands to a client
Job(payload, gen) ==
    [state |-> "busy", hltas |-> payload, generation |-> gen, frames |-> <<>>]

StartCommand == Some("_bxt_tas_optim_simulation_start_recording_frames")
DoneCommand == Some("_bxt_tas_optim_simulation_done;toggleconsole")

prepare_hltas_for_sending(pre, body) ==
    LET len == Len(pre)
        lines == pre \o body
    IN  Append([lines EXCEPT ![len + 1].console_command = StartCommand],
               FrameBulk(1, "0.001", DoneCommand))

RECURSIVE DropUntilStart(_)
DropUntilStart(lines) ==
    IF lines = <<>> THEN <<>>
    ELSE IF IsFrameBulk(Head(lines)) /\ Head(lines).console_command = StartCommand
    THEN lines
    ELSE DropUntilStart(Tail(lines))

RECURSIVE TakeUntilDone(_)
TakeUntilDone(lines) ==
    IF lines = <<>> THEN <<>>
    ELSE IF IsFrameBulk(Head(lines)) /\ Head(lines).console_command = DoneCommand
    THEN <<>>
    ELSE <<Head(lines)>> \o TakeUntilDone(Tail(lines))

\* the frames a client sends back: one for every tick from the line with the
\* start marker up to the line with the done marker
WorkerFrames(payload) ==
    Simulator(<<initial_frame>>, TakeUntilDone(DropUntilStart(payload)))

\* a job of the Editor of the generation before, still with a client
OldJob ==
    Job(prepare_hltas_for_sending(<<>>,
            <<[FrameBulk(2, "0.001", None) EXCEPT !.use_ = TRUE]>>),
        (InitGeneration + U16 - 1) % U16)

\* the part of the Editor a receive callback works on
\* panicked: a receive callback panicked, which ends the session
EditorPart(h, f, lmf) ==
    [hltas |-> h, frames |-> f, last_mutation_frames |-> lmf, panicked |-> FALSE]

\* A plausible slip: the initial frame is not put in front.
seed_callback_noinsert(e, job) ==
    IF job.generation # generation THEN e
    ELSE [e EXCEPT !.frames = job.frames]

\* the callback of maybe_simulate_all_in_remote_client
seed_callback(e, job) ==
    IF job.generation # generation THEN e
    ELSE [e EXCEPT !.frames = <<e.frames[1]>> \o job.frames]

\* A plausible slip: the received frames replace frames whole.
poll_callback_replace(e, job) ==
    IF job.generation # generation THEN e
    ELSE IF Len(e.frames) = 1
    THEN [e EXCEPT !.frames = job.frames]
    ELSE e

\* the callback of poll_remote_clients_when_not_optimizing
poll_callback(e, job) ==
    IF job.generation # generation THEN e
    ELSE IF Len(e.frames) = 1
    THEN [e EXCEPT !.frames = <<e.frames[1]>> \o job.frames]
    ELSE e

\* A plausible slip: the rule of the local loop with the chance taken.
remote_accepts_worse(result) == result.r \in {"Better", "Worse"}

\* if let AttemptResult::Better { .. } = objective.eval(..)
remote_accepts(result) == result.r = "Better"

\* A plausible slip: the drain goes to the end, the line with the done
\* marker stays in the body.
ReceivedBody_whole(payload) ==
    LET body == SubSeq(payload, Len(prefix) + 1, Len(payload)) IN
    [body EXCEPT ![1].console_command = None]

\* the body the accept path takes out of the script a client sent back
ReceivedBody(payload) ==
    LET body == SubSeq(payload, Len(prefix) + 1, Len(payload) - 1) IN
    [body EXCEPT ![1].console_command = None]

\* the accept path panics: the drain range prefix.len()..len - 1 is not a range
\* of the script, or lines[0] of the drained body is missing or no frame bulk
accept_panics(payload) ==
    \/ Len(payload) = 0
    \/ Len(prefix) > Len(payload) - 1
    \/ Len(prefix) = Len(payload) - 1
    \/ ~IsFrameBulk(payload[Len(prefix) + 1])

\* A plausible slip: the generation is not compared.
result_callback_nocheck(e, job, result) ==
    LET new_frames == <<e.frames[1]>> \o job.frames
        e1 == [e EXCEPT !.last_mutation_frames = Some(new_frames)]
    IN  IF remote_accepts(result)
        THEN [e1 EXCEPT !.hltas = ReceivedBody(job.hltas), !.frames = new_frames]
        ELSE e1

\* the callback of optimize_with_remote_clients; result is what the objective
\* gives for the received frames
result_callback(e, job, result) ==
    IF job.generation # generation THEN e
    ELSE LET new_frames == <<e.frames[1]>> \o job.frames
             e1 == [e EXCEPT !.last_mutation_frames = Some(new_frames)]
         IN  IF ~remote_accepts(result) THEN e1
             ELSE IF accept_panics(job.hltas) THEN [e1 EXCEPT !.panicked = TRUE]
             ELSE [e1 EXCEPT !.hltas = ReceivedBody(job.hltas), !.frames = new_frames]

\* receive_simulation_result_from_clients delivers the result of one client
\* that has finished its script, if there is one: the client whose result is
\* delivered, 0 when no result is ready
ReceiveChoices(cl) == {0} \cup {c \in Clients : cl[c].state \in {"busy", "garbled"}}

\* (hltas, generation, frames): what the callback is handed for a finished job
Delivered(job) ==
    IF job.state = "garbled" THEN job
    ELSE [job EXCEPT !.frames = WorkerFrames(job.hltas)]

is_any_client_simulating_generation(cl, gen) ==
    \E c \in Clients : cl[c].state \in {"busy", "garbled"} /\ cl[c].generation = gen

IdleClients(cl) == {c \in Clients : cl[c].state = "idle"}

\* The state a coordinator step threads through its parts: the Editor part,
\* the clients, the log of what was received and sent, and the number of
\* calls of receive_simulation_result_from_clients.
Remote(e, cl, recv, sent, attempts) ==
    [e |-> e, clients |-> cl, recv |-> recv, sent |-> sent, attempts |-> attempts]

\* receive_simulation_result_from_clients was called: r is the outcome
Attempt(r) == [r EXCEPT !.attempts = @ + 1]

\* the callback ran on the result of client c and gave e2
Received(r, c, e2, path, result) ==
    Remote(e2, [r.clients EXCEPT ![c] = IdleClient],
           Append(r.recv, [path |-> path, generation |-> r.clients[c].generation,
                           payload |-> r.clients[c].hltas,
                           received |-> Delivered(r.clients[c]).frames,
                           garbled |-> r.clients[c].state = "garbled",
                           result |-> result, before |-> r.e, after |-> e2]),
           r.sent, r.attempts)

\* maybe_simulate_in_one_client: the job goes to an idle client, if there is one
maybe_simulate_in_one_client(r, job) ==
    IF IdleClients(r.clients) = {} THEN r
    ELSE LET c == CHOOSE i \in IdleClients(r.clients) :
                      \A j \in IdleClients(r.clients) : i <= j
         IN  Remote(r.e, [r.clients EXCEPT ![c] = job], r.recv,
                    Append(r.sent, job.generation), r.attempts)

\* A plausible slip: the early return for an Editor that has its frames is
\* missing, and the receive is done again.
maybe_simulate_all_in_remote_client_again(r, c) ==
    LET r1 == Attempt(IF c = 0 THEN r
                      ELSE Received(r, c, seed_callback(r.e, Delivered(r.clients[c])),
                                    "seed", Invalid))
    IN  IF Len(r1.e.frames) > 1 THEN r1
        ELSE IF is_any_client_simulating_generation(r1.clients, generation) THEN r1
        ELSE maybe_simulate_in_one_client(r1,
                 Job(prepare_hltas_for_sending(prefix, r1.e.hltas), generation))

\* A plausible slip: the body is sent without asking whether a client is
\* simulating it already.
maybe_simulate_all_in_remote_client_unasked(r, c) ==
    IF Len(r.e.frames) > 1 THEN r
    ELSE LET r1 == Attempt(IF c = 0 THEN r
                           ELSE Received(r, c,
                                         seed_callback(r.e, Delivered(r.clients[c])),
                                         "seed", Invalid))
         IN  IF Len(r1.e.frames) > 1 THEN r1
             ELSE maybe_simulate_in_one_client(r1,
                      Job(prepare_hltas_for_sending(prefix, r1.e.hltas), generation))

\* maybe_simulate_all_in_remote_client, c the client whose result is delivered
maybe_simulate_all_in_remote_client(r, c) ==
    IF Len(r.e.frames) > 1 THEN r
    ELSE LET r1 == Attempt(IF c = 0 THEN r
                           ELSE Received(r, c,
                                         seed_callback(r.e, Delivered(r.clients[c])),
                                         "seed", Invalid))
         IN  IF Len(r1.e.frames) > 1 THEN r1
             ELSE IF is_any_client_simulating_generation(r1.clients, generation) THEN r1
             ELSE maybe_simulate_in_one_client(r1,
                      Job(prepare_hltas_for_sending(prefix, r1.e.hltas), generation))

\* "Change several frames" of the coordinator's producer closure
RECURSIVE RemoteMutations(_, _, _)
RemoteMutations(lines, single, choices) ==
    IF choices = <<>> THEN [ok |-> TRUE, lines |-> lines]
    ELSE LET c == Head(choices) IN
         IF single
         THEN LET sp == split_single_at_frame(lines, c.at) IN
              RemoteMutations(
                  [sp.lines EXCEPT ![sp.ret[1] + 1] = mutate_frame_bulk(@, c.d)],
                  single, Tail(choices))
         ELSE IF ~ShiftOk(lines, c) THEN [ok |-> FALSE, lines |-> lines]
         ELSE RemoteMutations(mutate_single_frame_bulk(lines, c.at, c.d, c.shift).lines,
                              single, Tail(choices))

\* A plausible slip: self.hltas = temp is missing, the Editor keeps the
\* mutations of the candidate it made last.
simulate_in_available_clients_keeps(r, single, ch) ==
    [ok |-> \A c \in DOMAIN ch : RemoteMutations(r.e.hltas, single, ch[c]).ok,
     r |-> Remote([r.e EXCEPT !.hltas =
                      IF DOMAIN ch = {} THEN r.e.hltas
                      ELSE LET made_last == CHOOSE c \in DOMAIN ch :
                                                \A o \in DOMAIN ch : o <= c
                           IN  RemoteMutations(r.e.hltas, single, ch[made_last]).lines],
                  [c \in Clients |->
                      IF c \in DOMAIN ch
                      THEN Job(prepare_hltas_for_sending(prefix,
                                   RemoteMutations(r.e.hltas, single, ch[c]).lines),
                               generation)
                      ELSE r.clients[c]],
                  r.recv,
                  r.sent \o [i \in 1..Cardinality(DOMAIN ch) |->
                                Job(<<>>, generation).generation],
                  r.attempts)]

\* simulate_in_available_clients: every idle client gets a candidate; ch gives
\* the rng's choices for each of them
simulate_in_available_clients(r, single, ch) ==
    [ok |-> \A c \in DOMAIN ch : RemoteMutations(r.e.hltas, single, ch[c]).ok,
     r |-> Remote(r.e,
                  [c \in Clients |->
                      IF c \in DOMAIN ch
                      THEN Job(prepare_hltas_for_sending(prefix,
                                   RemoteMutations(r.e.hltas, single, ch[c]).lines),
                               generation)
                      ELSE r.clients[c]],
                  r.recv,
                  r.sent \o [i \in 1..Cardinality(DOMAIN ch) |->
                                Job(<<>>, generation).generation],
                  r.attempts)]

LastTwo(s) == IF Len(s) <= 2 THEN s ELSE SubSeq(s, Len(s) - 1, Len(s))

Start == Remote(EditorPart(hltas, frames, last_mutation_frames), clients, <<>>, <<>>, 0)

Commit(op, r) ==
    /\ hltas' = r.e.hltas
    /\ frames' = r.e.frames
    /\ last_mutation_frames' = r.e.last_mutation_frames
    /\ clients' = r.clients
    /\ tags' = LastTwo(tags \o r.sent)
    /\ last' = [op |-> op, recv |-> r.recv, sent |-> r.sent, attempts |-> r.attempts]
    /\ iter' = None
    /\ steps' = IF r.e.panicked THEN MaxSteps ELSE steps + 1
    /\ UNCHANGED <<cap, prefix, generation, temperature, current_iterations>>

MaybeSimulateAllInRemoteClient ==
    /\ steps < MaxSteps
    /\ \E c \in (IF Len(frames) > 1 THEN {0} ELSE ReceiveChoices(clients)) :
         Commit("maybe_simulate_all_in_remote_client",
                maybe_simulate_all_in_remote_client(Start, c))

PollRemoteClientsWhenNotOptimizing ==
    /\ steps < MaxSteps
    /\ \E c \in ReceiveChoices(clients) :
         Commit("poll_remote_clients_when_not_optimizing",
                Attempt(IF c = 0 THEN Start
                        ELSE Received(Start, c,
                                      poll_callback(Start.e, Delivered(clients[c])),
                                      "poll", Invalid)))

\* the arguments optimize_with_remote_clients is called with
RemoteArgs ==
    { [frames |-> 2, random_frames_to_change |-> 1, change_single_frames |-> TRUE],
      [frames |-> 0, random_frames_to_change |-> 1, change_single_frames |-> FALSE] }

\* what the rng gives the producer closure for one mutation
RemoteChoices(lines, high, single) ==
    {c \in Choices(lines, high, single) :
        c.d.type_ = "MaxDeccel" /\ c.shift \in {0, 1}}

\* the objective is asked only about a result of the current generation
ResultChoices(r, c) ==
    IF c # 0 /\ r.clients[c].generation = generation THEN AttemptResults ELSE {Invalid}

OptimizeWithRemoteClients ==
    /\ steps < MaxSteps
    /\ \E args \in RemoteArgs :
       \E c1 \in (IF Len(frames) > 1 THEN {0} ELSE ReceiveChoices(clients)) :
       \E r1 \in {maybe_simulate_all_in_remote_client(Start, c1)} :
         IF Len(r1.e.frames) = 1
         THEN Commit("optimize_with_remote_clients", r1)
         ELSE \E c2 \in ReceiveChoices(r1.clients) :
              \E result \in ResultChoices(r1, c2) :
              \E r2 \in {Attempt(IF c2 = 0 THEN r1
                                 ELSE Received(r1, c2,
                                          result_callback(r1.e, Delivered(r1.clients[c2]),
                                                          result),
                                          "result", result))} :
              IF r2.e.panicked THEN Commit("optimize_with_remote_clients", r2)
              ELSE
              \E ch \in [IdleClients(r2.clients) ->
                           [1..args.random_frames_to_change ->
                               RemoteChoices(r2.e.hltas,
                                             High(r2.e.frames, args.frames),
                                             args.change_single_frames)]] :
              \E r3 \in {simulate_in_available_clients(r2, args.change_single_frames,
                                                       ch)} :
                /\ r3.ok
                /\ Commit("optimize_with_remote_clients", r3.r)

RemoteInit ==
    /\ EditorInit
    /\ clients \in {[c \in Clients |-> IdleClient],
                    [c \in Clients |-> IF c = 1 THEN OldJob ELSE IdleClient]}

RemoteNext ==
    \/ MaybeSimulateAllInRemoteClient
    \/ PollRemoteClientsWhenNotOptimizing
    \/ OptimizeWithRemoteClients

RemoteSpec == RemoteInit /\ [][RemoteNext]_vars

(***************************************************************************)
(* A worker round that comes back corrupted: the tuple a client delivers   *)
(* carries the current generation, but its script or its frames are not    *)
(* what the Editor sent out.                                               *)
(***************************************************************************)
Garblings == {"short", "no_segment", "frames"}

\* what the client delivers instead of the result of job
Garbled(job, how) ==
    LET sent == WorkerFrames(job.hltas) IN
    [state |-> "garbled", generation |-> job.generation,
     hltas |-> IF how = "short" THEN SubSeq(job.hltas, 1, Len(prefix))
               ELSE IF how = "no_segment"
               THEN [job.hltas EXCEPT ![Len(prefix) + 1] = [kind |-> "Comment"]]
               ELSE job.hltas,
     frames |-> IF how = "frames" THEN SubSeq(sent, 1, Len(sent) - 1) ELSE sent]

Garble ==
    \E c \in Clients, how \in Garblings :
        /\ steps < MaxSteps
        /\ clients[c].state = "busy"
        /\ clients[c].generation = generation
        /\ clients' = [clients EXCEPT ![c] = Garbled(clients[c], how)]
        /\ last' = [op |-> "garble"]
        /\ UNCHANGED <<cap, prefix, hltas, frames, last_mutation_frames, generation,
                       temperature, current_iterations, iter, tags, steps>>

FaultNext == RemoteNext \/ Garble

FaultSpec == RemoteInit /\ [][FaultNext]_vars

\* the bodies without long frame bulks
WrapScripts ==
    {b \in MutateBodies :
        \A i \in DOMAIN b : IsFrameBulk(b[i]) => b[i].frame_count <= MaxCount}

(***************************************************************************)
(* The splits on scripts whose frame bulks differ in their settings, one   *)
(* call on each.                                                           *)
(***************************************************************************)
SplitInit ==
    /\ hltas \in WrapScripts
    /\ last = NoCall
    /\ EditorIdle

\* one call on every script
SplitNext ==
    \/ last = NoCall /\ CallSplitAtFrame
    \/ last = NoCall /\ CallSplitSingleAtFrame

SplitSpec == SplitInit /\ [][SplitNext]_vars

(***************************************************************************)
(* One candidate on its way: the producer closure of the coordinator      *)
(* builds the script a client gets, and the accept path of the receive     *)
(* takes the body out of it again, for the Editor of every small script.   *)
(***************************************************************************)
WrapInit ==
    /\ \E script \in WrapScripts :
       \E first_frame \in 0..(TotalFrames(script) - 1) :
         /\ prefix = EditorNew(script, first_frame).prefix
         /\ hltas = EditorNew(script, first_frame).hltas
    /\ frames = FullSimulation(initial_frame, hltas)
    /\ last_mutation_frames = None
    /\ generation = InitGeneration
    /\ cap = NoCapture
    /\ temperature = InitTemperature
    /\ current_iterations = 0
    /\ iter = None
    /\ clients = <<>>
    /\ tags = <<>>
    /\ steps = 0
    /\ last = NoCall

\* the closure handed to simulate_in_available_clients, called once
Produce ==
    /\ last = NoCall
    /\ \E single \in BOOLEAN :
       \E choice \in Choices(hltas, High(frames, 0), single) :
       \E m \in {RemoteMutations(hltas, single, <<choice>>)} :
         /\ m.ok
         /\ last' = [op |-> "produce", candidate |-> m.lines,
                     payload |-> prepare_hltas_for_sending(prefix, m.lines)]
    /\ UNCHANGED <<cap, prefix, hltas, frames, last_mutation_frames, generation,
                   temperature, current_iterations, iter, clients, tags, steps>>

\* the accept path of the receive closure, on the script that was produced
Accept ==
    /\ last.op = "produce"
    /\ ~accept_panics(last.payload)
    /\ hltas' = ReceivedBody(last.payload)
    /\ frames' = FullSimulation(frames[1], ReceivedBody(last.payload))
    /\ last_mutation_frames' = Some(frames')
    /\ last' = [op |-> "accept", candidate |-> last.candidate,
                payload |-> last.payload, before |-> hltas]
    /\ UNCHANGED <<cap, prefix, generation, temperature, current_iterations, iter,
                   clients, tags, steps>>

WrapNext == Produce \/ Accept

WrapSpec == WrapInit /\ [][WrapNext]_vars

(***************************************************************************)
(* minimize.  Whether a setting moves the player is the world's to say:    *)
(* inert holds the settings that do not, and player() is a state without   *)
(* them.  A State holds more than its player: with "carried" in inert,     *)
(* duck_before_ground moves the player one tick late, out of the part of   *)
(* the State that player() leaves out.                                     *)
(***************************************************************************)
InertChoices ==
    { {"use_"}, {"leave_ground_action", "duck_before_ground"},
      {"leave_ground_action", "carried"} }

Visible(tick, inert) ==
    [tick EXCEPT !.use_ = IF "use_" \in inert THEN FALSE ELSE @,
                 !.leave_ground_action =
                     IF "leave_ground_action" \in inert THEN None ELSE @,
                 !.duck_before_ground =
                     IF "duck_before_ground" \in inert THEN None ELSE @]

\* State::player(): position, orientation and velocity
player(state, inert) ==
    [i \in DOMAIN state |->
        IF "carried" \in inert
        THEN [Visible(state[i], inert) EXCEPT !.duck_before_ground =
                 IF i > 1 THEN state[i - 1].duck_before_ground ELSE None]
        ELSE Visible(state[i], inert)]

\* the closure simulate of minimize: frame_count ticks of the frame bulk
simulate(state, frame_bulk) ==
    state \o [i \in 1..frame_bulk.frame_count |-> TickSetting(frame_bulk)]

\* the frame bulk with the change tried, if the player ends where it did
TryChange(state, frame_bulk, changed, inert) ==
    IF player(simulate(state, frame_bulk), inert) = player(simulate(state, changed), inert)
    THEN changed ELSE frame_bulk

\* A plausible slip: the leave ground action is taken away like the other
\* two, not replaced.
minimize_frame_bulk_removes(state, frame_bulk, preferred, inert) ==
    LET fb1 == IF frame_bulk.use_
               THEN TryChange(state, frame_bulk, [frame_bulk EXCEPT !.use_ = FALSE],
                              inert)
               ELSE frame_bulk
        fb2 == IF fb1.leave_ground_action # None
               THEN TryChange(state, fb1, [fb1 EXCEPT !.leave_ground_action = None],
                              inert)
               ELSE fb1
    IN  IF fb2.duck_before_ground # None
        THEN TryChange(state, fb2, [fb2 EXCEPT !.duck_before_ground = None], inert)
        ELSE fb2

\* the body of the loop "Remove unused keys and actions" for one frame bulk
minimize_frame_bulk(state, frame_bulk, preferred, inert) ==
    LET fb1 == IF frame_bulk.use_
               THEN TryChange(state, frame_bulk, [frame_bulk EXCEPT !.use_ = FALSE],
                              inert)
               ELSE frame_bulk
        fb2 == IF fb1.leave_ground_action # None
               THEN TryChange(state, fb1,
                        [fb1 EXCEPT !.leave_ground_action =
                            Some([fb1.leave_ground_action[1] EXCEPT
                                     !.speed = "Optimal",
                                     !.times = "UnlimitedWithinFrameBulk",
                                     !.type_ = preferred])],
                        inert)
               ELSE fb1
    IN  IF fb2.duck_before_ground # None
        THEN TryChange(state, fb2, [fb2 EXCEPT !.duck_before_ground = None], inert)
        ELSE fb2

RECURSIVE RemoveUnused(_, _, _, _)
RemoveUnused(lines, state, preferred, inert) ==
    IF lines = <<>> THEN <<>>
    ELSE IF ~IsFrameBulk(Head(lines))
    THEN <<Head(lines)>> \o RemoveUnused(Tail(lines), state, preferred, inert)
    ELSE LET lga == Head(lines).leave_ground_action
             pref == IF lga # None THEN lga[1].type_ ELSE preferred
             frame_bulk == minimize_frame_bulk(state, Head(lines), pref, inert)
         IN  <<frame_bulk>>
             \o RemoveUnused(Tail(lines), simulate(state, frame_bulk), pref, inert)

\* frame_count.get() + next_frame_bulk.frame_count.get() in u32, then
\* NonZeroU32::new(..).unwrap(): overflow says the sum left u32 (a panic where
\* overflow is checked, a wrapped count where it is not), zero that the
\* wrapped count is 0 (a panic of unwrap)
AddCounts(a, b) ==
    [count |-> (a + b) % (U32_MAX + 1),
     overflow |-> a + b > U32_MAX,
     zero |-> (a + b) % (U32_MAX + 1) = 0]

\* the inner loop of "Join split frame bulks": the frame bulk grown by the
\* equal frame bulks that follow line j, and the line the run ends before
RECURSIVE JoinRun(_, _, _, _)
JoinRun(lines, frame_bulk, j, overflow) ==
    IF j + 1 = Len(lines)
    THEN [frame_bulk |-> frame_bulk, j |-> j + 1, overflow |-> overflow, zero |-> FALSE]
    ELSE LET next == lines[j + 2]
             sum == AddCounts(frame_bulk.frame_count, next.frame_count)
         IN  IF IsFrameBulk(next)
                   /\ [frame_bulk EXCEPT !.frame_count = next.frame_count] = next
             THEN IF sum.zero
                  THEN [frame_bulk |-> frame_bulk, j |-> j + 1, overflow |-> TRUE,
                        zero |-> TRUE]
                  ELSE JoinRun(lines, [frame_bulk EXCEPT !.frame_count = sum.count],
                               j + 1, overflow \/ sum.overflow)
             ELSE [frame_bulk |-> frame_bulk, j |-> j + 1, overflow |-> overflow,
                   zero |-> FALSE]

\* new_lines, and whether an addition overflowed or gave 0 on the way
RECURSIVE JoinSplit(_, _)
JoinSplit(lines, i) ==
    IF i >= Len(lines) THEN [lines |-> <<>>, overflow |-> FALSE, zero |-> FALSE]
    ELSE IF IsFrameBulk(lines[i + 1])
    THEN LET run == JoinRun(lines, lines[i + 1], i, FALSE) IN
         IF run.zero THEN [lines |-> <<>>, overflow |-> TRUE, zero |-> TRUE]
         ELSE LET rest == JoinSplit(lines, run.j) IN
              [lines |-> <<run.frame_bulk>> \o rest.lines,
               overflow |-> run.overflow \/ rest.overflow, zero |-> rest.zero]
    ELSE LET rest == JoinSplit(lines, i + 1) IN
         [rest EXCEPT !.lines = <<lines[i + 1]>> \o @]

\* whether overflow of an integer addition panics (it does where
\* overflow-checks are on, as in a debug build)
Builds == {"overflow-checks", "wrapping"}

\* hltas.lines after minimize, or the panic it ends in
minimize(lines, first, inert, build) ==
    LET joined == JoinSplit(RemoveUnused(lines, first.state, "Jump", inert), 0)
        panicked == joined.zero \/ (joined.overflow /\ build = "overflow-checks")
    IN  [lines |-> IF panicked THEN lines ELSE joined.lines, panicked |-> panicked]

Minimize ==
    /\ steps < MaxSteps
    /\ \E inert \in InertChoices, build \in Builds :
       \E m \in {minimize(hltas, frames[1], inert, build)} :
         /\ hltas' = m.lines
         /\ last' = [op |-> "minimize", before |-> hltas, inert |-> inert,
                     unjoined |-> RemoveUnused(hltas, frames[1].state, "Jump", inert),
                     panicked |-> m.panicked]
         /\ steps' = IF m.panicked THEN MaxSteps ELSE steps + 1
    /\ iter' = None
    /\ UNCHANGED <<cap, prefix, frames, last_mutation_frames, generation, temperature,
                   current_iterations, clients, tags>>

(***************************************************************************)
(* minimize on its own, for every small body.                              *)
(***************************************************************************)
MinimizeLines ==
    {[FrameBulk(c, "0.001", None) EXCEPT
         !.use_ = o.use_, !.leave_ground_action = o.lga, !.duck_before_ground = o.dbg] :
       c \in 1..MaxCount,
       o \in {[use_ |-> FALSE, lga |-> None, dbg |-> None],
              [use_ |-> TRUE, lga |-> None, dbg |-> None],
              [use_ |-> FALSE, lga |-> None,
               dbg |-> Some([times |-> "UnlimitedWithinFrameBulk"])],
              [use_ |-> FALSE,
               lga |-> Some(LeaveGroundAction("Any", "UnlimitedWithinFrameBulk",
                                              "DuckTap", TRUE)),
               dbg |-> None]}}
    \cup {[FrameBulk(1, "0.001", None) EXCEPT
              !.use_ = TRUE,
              !.leave_ground_action =
                  Some(LeaveGroundAction("Any", "UnlimitedWithinFrameBulk",
                                         "DuckTap", TRUE)),
              !.duck_before_ground = Some([times |-> "UnlimitedWithinFrameBulk"])],
          FrameBulk(1, "0.004", None), FrameBulk(U32_MAX - 1, "0.001", None),
          [kind |-> "Comment"]}

\* bodies: the first line is a frame bulk
MinimizeBodies ==
    {b \in UNION {[1..n -> MinimizeLines] : n \in 1..MaxLines} : IsFrameBulk(b[1])}

MinimizeInit ==
    /\ prefix = <<>>
    /\ hltas \in MinimizeBodies
    /\ frames = <<initial_frame>>
    /\ last_mutation_frames = None
    /\ generation = InitGeneration
    /\ cap = NoCapture
    /\ temperature = InitTemperature
    /\ current_iterations = 0
    /\ iter = None
    /\ clients = <<>>
    /\ tags = <<>>
    /\ steps = 0
    /\ last = NoCall

MinimizeSpec == MinimizeInit /\ [][Minimize]_vars

(***************************************************************************)
(* The Editor with every operation.                                        *)
(***************************************************************************)
AllInit ==
    /\ EditorInit
    /\ clients \in {[c \in Clients |-> IdleClient],
                    [c \in Clients |-> IF c = 1 THEN OldJob ELSE IdleClient]}

\* optimize() called for one mutation an iteration
OptimizeOne == OptimizeWith({a \in OptimizeArgs : a.random_frames_to_change = 1})

AllNext ==
    \/ SimulateAll
    \/ OptimizeOne
    \/ IterNext
    \/ update_temperature
    \/ MaybeSimulateAllInRemoteClient
    \/ PollRemoteClientsWhenNotOptimizing
    \/ OptimizeWithRemoteClients
    \/ Minimize

EditorSpec == AllInit /\ [][AllNext]_vars

(***************************************************************************)
(* Claims about the remote coordinator (checked under RemoteSpec).         *)
(***************************************************************************)
ReceivingOps ==
    {"maybe_simulate_all_in_remote_client", "poll_remote_clients_when_not_optimizing",
     "optimize_with_remote_clients"}

Receipts == IF last.op \in ReceivingOps THEN last.recv ELSE <<>>

\* the received frames put after the fixed initial frame
Spliced(rcpt) == <<rcpt.before.frames[1]>> \o rcpt.received

\* the received body and frames took the place of the Editor's
Applied(rcpt) ==
    /\ rcpt.after.hltas = ReceivedBody(rcpt.payload)
    /\ rcpt.after.frames = Spliced(rcpt)

NotApplied(rcpt) ==
    /\ rcpt.after.hltas = rcpt.before.hltas
    /\ rcpt.after.frames = rcpt.before.frames

\* C1: in every receive path a result whose generation tag differs from
\* Editor.generation is discarded: frames, body and preview are as before it.
C1_StaleResultDiscarded ==
    \A i \in DOMAIN Receipts :
        Receipts[i].generation # generation => Receipts[i].after = Receipts[i].before

\* a result of the generation before arrives after the initial simulation did
C1_Witness ==
    /\ last.op = "optimize_with_remote_clients"
    /\ \E i \in DOMAIN Receipts :
         /\ Receipts[i].path = "result"
         /\ Receipts[i].generation # generation
         /\ Len(Receipts[i].before.frames) > 1

\* C2 as stated: the tags of successive dispatches strictly increase.
C2_TagsStrictlyIncrease == Len(tags) = 2 => tags[1] < tags[2]

\* C2, amended: Editor.generation keeps the value the Editor was created with
\* and every dispatched candidate is stamped with it, so the tags of successive
\* dispatches are equal.
C2_TagsAreTheGeneration ==
    /\ generation = InitGeneration
    /\ \A i \in DOMAIN tags : tags[i] = generation

\* the initial simulation and a mutated candidate have been dispatched
C2_Witness ==
    /\ Len(tags) = 2
    /\ Len(frames) > 1
    /\ \E c \in Clients : clients[c].state = "busy" /\ clients[c].generation = generation

\* C10 as stated: a result of the current generation is taken or left as the
\* rule of the local loop would: Better always taken, Worse taken when the
\* chance falls under the Metropolis factor (always when the factor is 1),
\* Invalid never.
C10_SameRuleAsLocal ==
    \A i \in DOMAIN Receipts :
        (Receipts[i].path = "result" /\ Receipts[i].generation = generation) =>
            \E chance \in BOOLEAN :
                /\ ChanceOk(Receipts[i].result, temperature, chance)
                /\ IF optimize_accepts(Receipts[i].result, chance)
                   THEN Applied(Receipts[i]) ELSE NotApplied(Receipts[i])

\* C10, amended: the received frames are spliced onto the fixed initial frame
\* and stored as preview; a Better result replaces body and frames, a Worse or
\* Invalid result never does.
C10_OnlyBetterAccepted ==
    \A i \in DOMAIN Receipts :
        (Receipts[i].path = "result" /\ Receipts[i].generation = generation) =>
            /\ Receipts[i].after.last_mutation_frames = Some(Spliced(Receipts[i]))
            /\ IF Receipts[i].result.r = "Better"
               THEN Applied(Receipts[i]) ELSE NotApplied(Receipts[i])

\* a Worse result of the current generation, with frames other than the Editor's
C10_Witness ==
    \E i \in DOMAIN Receipts :
        /\ Receipts[i].path = "result"
        /\ Receipts[i].generation = generation
        /\ Receipts[i].result.r = "Worse"
        /\ Spliced(Receipts[i]) # Receipts[i].before.frames

(***************************************************************************)
(* Claims about the Editor as a whole (checked under EditorSpec).          *)
(***************************************************************************)

\* C7: frames.len() is 1 or the total frame count of the body plus 1.
C7_FramesLength ==
    Len(frames) = 1 \/ Len(frames) = TotalFrames(hltas) + 1

\* a body that came back from a client, split by its mutation, is in place
C7_Witness ==
    /\ \E i \in DOMAIN Receipts :
         /\ Receipts[i].path = "result"
         /\ Receipts[i].result.r = "Better"
         /\ Len(Receipts[i].after.hltas) > Len(Receipts[i].before.hltas)
    /\ Len(frames) = TotalFrames(hltas) + 1

(***************************************************************************)
(* Claims about corrupted worker rounds (checked under FaultSpec).         *)
(***************************************************************************)

\* C11 as stated: a result of the current generation that comes back
\* corrupted (its script too short, its first body line no frame bulk, or its
\* frame list not the script's) is dropped: no callback panics and the Editor
\* is as it was before the receive.
C11_CorruptedResultDropped ==
    \A i \in DOMAIN Receipts :
        (Receipts[i].garbled /\ Receipts[i].generation = generation) =>
            /\ ~Receipts[i].after.panicked
            /\ Receipts[i].after = Receipts[i].before

(***************************************************************************)
(* Claims about minimize (checked under MinimizeSpec).                     *)
(***************************************************************************)

\* the player states a body gives, frame by frame, from the initial frame
PlayerStates(lines, inert) == player(frames[1].state \o Ticks(lines), inert)

\* C12 as stated: the minimized script, simulated from frames[0], gives the
\* player states the script before minimize gave.
C12_MinimizeRoundTrip ==
    last.op = "minimize" =>
        PlayerStates(hltas, last.inert) = PlayerStates(last.before, last.inert)

\* every maximal run of adjacent frame bulks that differ in frame_count alone
\* made one frame bulk with the sum of the run; other lines where they were
RECURSIVE MergeRuns(_)
MergeRuns(lines) ==
    IF lines = <<>> THEN <<>>
    ELSE LET h == Head(lines)
             rest == MergeRuns(Tail(lines))
         IN  IF /\ IsFrameBulk(h)
                /\ rest # <<>>
                /\ IsFrameBulk(rest[1])
                /\ [h EXCEPT !.frame_count = 0] = [rest[1] EXCEPT !.frame_count = 0]
             THEN <<[h EXCEPT !.frame_count = @ + rest[1].frame_count]>> \o Tail(rest)
             ELSE <<h>> \o rest

\* C13 as stated: the merge pass of minimize gives one frame bulk with the sum
\* of the counts for every maximal run of adjacent frame bulks equal but for
\* frame_count, leaves the other lines in place, and keeps the total.
C13_MergePass ==
    last.op = "minimize" =>
        /\ ~last.panicked
        /\ hltas = MergeRuns(last.unjoined)
        /\ TotalFrames(hltas) = TotalFrames(last.before)

(***************************************************************************)
(* Claims about the mutations (checked under MutateSpec).                  *)
(***************************************************************************)

\* the frame counts of the frame bulks, in order
Counts(lines) ==
    [i \in DOMAIN FrameBulkLines(lines, 0) |->
        lines[FrameBulkLines(lines, 0)[i] + 1].frame_count]

\* C14: mutate_single_frame_bulk on a frame bulk that no frame bulk follows
\* leaves every frame_count as it was and does not panic.
C14_LastSegmentKeepsCounts ==
    (/\ last.op = "mutate_single_frame_bulk"
     /\ last.index + 1 = Len(FrameBulkLines(last.before, 0))) =>
        /\ ~last.panicked
        /\ Counts(hltas) = Counts(last.before)

\* the only frame bulk of a body was mutated: its settings changed
C14_Witness ==
    /\ last.op = "mutate_single_frame_bulk"
    /\ Len(last.before) = 1
    /\ last.index = 0
    /\ last.before[1].frame_count = U32_MAX
    /\ hltas # last.before

(***************************************************************************)
(* Claims about save (checked under SaveSpec).                             *)
(***************************************************************************)

\* C15: after save returns, with or without an error, prefix and the body
\* hold the lines they held before the call.
C15_SaveKeepsLines ==
    last.op = "save" =>
        /\ prefix = last.before.prefix
        /\ hltas = last.before.hltas

\* save failed on a script with a prefix of two lines and a body
C15_Witness ==
    /\ last.op = "save"
    /\ ~last.ok
    /\ Len(last.before.prefix) = 2
    /\ last.written = last.before.prefix \o last.before.hltas

(***************************************************************************)
(* Claims about the whole Editor (checked under EditorSpec).               *)
(***************************************************************************)

\* C16: after any sequence of local iterations, remote receives and minimize
\* frames[0] is the initial frame the Editor was created with.
C16_FirstFrameFixed ==
    /\ Len(frames) >= 1
    /\ frames[1] = initial_frame

\* a remote step received a result for the current generation and left
\* simulated frames after the initial one
C16_Witness ==
    /\ last.op \in ReceivingOps
    /\ \E i \in DOMAIN last.recv : last.recv[i].generation = generation
    /\ Len(frames) > 1
    /\ frames[1] = initial_frame

(***************************************************************************)
(* Claims about the steps of the coordinator (checked under RemoteSpec).   *)
(***************************************************************************)

\* the initial simulation result arrived in the step: the first receipt put
\* frames after the only frame
SeedArrived ==
    /\ Len(last.recv) >= 1
    /\ last.recv[1].path = "seed"
    /\ Len(last.recv[1].before.frames) = 1
    /\ Len(last.recv[1].after.frames) > 1

\* C18 as stated: a call of optimize_with_remote_clients makes at most one
\* receive-attempt and hands at most one candidate to a worker.
C18_OneReceiveOneDispatch ==
    last.op = "optimize_with_remote_clients" =>
        /\ last.attempts <= 1
        /\ Len(last.sent) <= 1

\* C18, amended: a call of optimize_with_remote_clients makes one
\* receive-attempt, and a second one exactly when the first delivered the
\* initial simulation result; each attempt delivers at most one result; at
\* most one script is handed to each worker, and at most one in all while
\* frames has its one frame.
C18_ReceivesAndDispatches ==
    last.op = "optimize_with_remote_clients" =>
        /\ last.attempts \in {1, 2}
        /\ last.attempts = 2 <=> SeedArrived
        /\ Len(last.recv) <= last.attempts
        /\ Len(last.sent) <= Cardinality(Clients)
        /\ Len(frames) = 1 => Len(last.sent) <= 1

\* the initial result arrived, a second result was received in the same
\* call, and every worker was handed a candidate
C18_Witness ==
    /\ last.op = "optimize_with_remote_clients"
    /\ last.attempts = 2
    /\ Len(last.recv) = 2
    /\ Len(last.sent) = Cardinality(Clients)
    /\ Cardinality(Clients) > 1

\* the clients that simulate the current generation
Simulating(cl) ==
    {c \in Clients : cl[c].state \in {"busy", "garbled"} /\ cl[c].generation = generation}

\* C19: a step of the coordinator that leaves frames with its one frame
\* dispatches at most one script, the unmodified body wrapped for sending,
\* and only when no client was simulating the current generation.
C19_OnlySeedBeforeFrames ==
    [][(/\ last'.op \in ReceivingOps
        /\ Len(frames') = 1
        /\ Len(last'.sent) > 0) =>
           /\ Len(last'.sent) = 1
           /\ hltas' = hltas
           /\ \E c \in Clients :
                /\ clients'[c] = Job(prepare_hltas_for_sending(prefix, hltas), generation)
                /\ Simulating(clients') = {c}]_vars

\* the unmodified body went out to the second client while the first one
\* still simulates a script of another generation
C19_Witness ==
    /\ last.op = "optimize_with_remote_clients"
    /\ Len(frames) = 1
    /\ Len(last.sent) = 1
    /\ clients[1] = OldJob
    /\ clients[2] = Job(prepare_hltas_for_sending(prefix, hltas), generation)

(***************************************************************************)
(* Claims about the console command of a split segment (ScriptSpec).       *)
(***************************************************************************)

\* C20: when split_at_frame splits a segment in two, the left part keeps
\* the console command of the segment and the new right part has none.
C20_RightPartHasNoCommand ==
    (/\ last.op = "split_at_frame"
     /\ Len(hltas) = Len(last.before) + 1) =>
        /\ hltas[last.ret[1]].console_command
               = last.before[last.ret[1]].console_command
        /\ hltas[last.ret[1] + 1].console_command = None

\* C21: when the frame bulk after the chosen one has the same frame_time,
\* mutate_single_frame_bulk moves frames between the two: the sum of the two
\* counts and the total are as before, both counts are in 1..u32::MAX, every
\* other count is as before, and nothing panics.
C21_BoundaryShiftTransfers ==
    (/\ last.op = "mutate_single_frame_bulk"
     /\ CanShift(last.before, last.index)) =>
        LET i == last.index + 1
            old == Counts(last.before)
            new == Counts(hltas)
        IN  /\ ~last.panicked
            /\ DOMAIN new = DOMAIN old
            /\ new[i] + new[i + 1] = old[i] + old[i + 1]
            /\ new[i] \in 1..U32_MAX
            /\ new[i + 1] \in 1..U32_MAX
            /\ \A j \in DOMAIN old : j \notin {i, i + 1} => new[j] = old[j]
            /\ TotalFrames(hltas) = TotalFrames(last.before)

\* a shift that was cut short: the chosen frame bulk was at u32::MAX - 1 and
\* took one frame of the next, where the rng asked for more
C21_Witness ==
    /\ last.op = "mutate_single_frame_bulk"
    /\ CanShift(last.before, last.index)
    /\ last.shift > 1
    /\ Counts(last.before)[last.index + 1] = U32_MAX - 1
    /\ Counts(hltas)[last.index + 1] = U32_MAX
    /\ Counts(hltas)[last.index + 2] = Counts(last.before)[last.index + 2] - 1

(***************************************************************************)
(* Claims about the removal pass of minimize (checked under MinimizeSpec). *)
(***************************************************************************)

\* the state carried into line i of the removal pass
CarriedIn(i) == frames[1].state \o Ticks(SubSeq(last.unjoined, 1, i - 1))

\* the player ends in the same state with frame bulk a as with frame bulk b
SamePlayer(i, a, b) ==
    player(simulate(CarriedIn(i), a), last.inert)
        = player(simulate(CarriedIn(i), b), last.inert)

\* the leave ground action of the same type with the optimal speed, any
\* number of times
Canonical(action) ==
    Some([action[1] EXCEPT !.speed = "Optimal", !.times = "UnlimitedWithinFrameBulk"])

C23_CounterBounded == current_iterations <= MaxIterations + 1

\* C23, amended: an iteration adds one to current_iterations and leaves the
\* temperature; update_temperature, and nothing else, multiplies the
\* temperature by cooling_rate and resets the counter, when the counter is
\* above max_iterations, and changes neither otherwise; every other
\* operation leaves both.
C23_Schedule ==
    [][IF last'.op = "optimize_next"
       THEN /\ current_iterations' = current_iterations + 1
            /\ temperature' = temperature
       ELSE IF last'.op = "update_temperature" /\ current_iterations > MaxIterations
       THEN /\ current_iterations' = 0
            /\ temperature' = Cooled(temperature)
       ELSE /\ current_iterations' = current_iterations
            /\ temperature' = temperature]_vars

\* the temperature was lowered after the counter had passed max_iterations
C23_Witness ==
    /\ last.op = "update_temperature"
    /\ current_iterations = 0
    /\ temperature = Cooled(InitTemperature)
    /\ temperature < InitTemperature

\* C24: the assertion of the local loop, acceptance <= 1, holds for every
\* Worse result the objective gives (none has a difference above 0).
C24_AssertionHolds ==
    last.op = "optimize_next" => ~last.panicked

(***************************************************************************)
(* Claims about the script a client gets (checked under WrapSpec).         *)
(***************************************************************************)

\* payload is the prefix, then the candidate with the start marker as the
\* console command of its first line, then one frame with the done marker
Wrapped(payload, candidate) ==
    /\ Len(payload) = Len(prefix) + Len(candidate) + 1
    /\ SubSeq(payload, 1, Len(prefix)) = prefix
    /\ IsFrameBulk(candidate[1])
    /\ payload[Len(prefix) + 1] = [candidate[1] EXCEPT !.console_command = StartCommand]
    /\ \A i \in 2..Len(candidate) : payload[Len(prefix) + i] = candidate[i]
    /\ payload[Len(payload)] = FrameBulk(1, "0.001", DoneCommand)

\* C25: the script sent is the prefix, the candidate with the start marker
\* on its first segment and one last segment with the done marker; what the
\* accept path takes out of it is the candidate that was wrapped.
C25_PayloadRoundTrip ==
    /\ last.op \in {"produce", "accept"} =>
           /\ Wrapped(last.payload, last.candidate)
           /\ ~accept_panics(last.payload)
    /\ last.op = "accept" => hltas = last.candidate

\* a mutated candidate of two lines or more behind a prefix was accepted
C25_Witness ==
    /\ last.op = "accept"
    /\ Len(prefix) > 0
    /\ Len(last.candidate) > 1
    /\ last.candidate # last.before
    /\ hltas = last.candidate

(***************************************************************************)
(* Claims about what a coordinator step changes (checked under RemoteSpec) *)
(***************************************************************************)

\* C26: a coordinator step leaves the prefix; its receives of a result of
\* another generation leave body and frames; and after the step body and
\* frames are what its last receive left, whatever was dispatched after it.
C26_DispatchLeavesEditor ==
    [][last'.op \in ReceivingOps =>
          /\ prefix' = prefix
          /\ \A i \in DOMAIN last'.recv :
                LET rcpt == last'.recv[i] IN
                /\ rcpt.before.hltas
                      = IF i = 1 THEN hltas ELSE last'.recv[i - 1].after.hltas
                /\ rcpt.before.frames
                      = IF i = 1 THEN frames ELSE last'.recv[i - 1].after.frames
                /\ rcpt.generation # generation =>
                      /\ rcpt.after.hltas = rcpt.before.hltas
                      /\ rcpt.after.frames = rcpt.before.frames
          /\ hltas' = IF last'.recv = <<>> THEN hltas
                      ELSE last'.recv[Len(last'.recv)].after.hltas
          /\ frames' = IF last'.recv = <<>> THEN frames
                       ELSE last'.recv[Len(last'.recv)].after.frames]_vars

\* a step received nothing and handed every client a candidate; one of the
\* candidates differs from the body, which the Editor still holds
C26_Witness ==
    /\ last.op = "optimize_with_remote_clients"
    /\ last.recv = <<>>
    /\ Len(frames) > 1
    /\ Len(last.sent) = Cardinality(Clients)
    /\ \E c \in Clients :
         /\ clients[c].state = "busy"
         /\ clients[c].generation = generation
         /\ ReceivedBody(clients[c].hltas) # hltas

(***************************************************************************)
(* Claims about the frames of a split script (checked under SplitSpec).    *)
(***************************************************************************)

\* the script frame by frame: the settings of every frame of a frame bulk,
\* and every other line as it is, in the order of the script
RECURSIVE Expand(_)
Expand(lines) ==
    IF lines = <<>> THEN <<>>
    ELSE (IF IsFrameBulk(Head(lines))
          THEN [i \in 1..Head(lines).frame_count |-> TickSetting(Head(lines))]
          ELSE <<Head(lines)>>)
         \o Expand(Tail(lines))

\* C27: split_at_frame and split_single_at_frame leave the script, taken
\* frame by frame, as it was: the same settings for every frame, the same
\* other lines, in the same order and between the same frames.
C27_SplitKeepsFrames ==
    last.op \in {"split_at_frame", "split_single_at_frame"} =>
        Expand(hltas) = Expand(last.before)

\* split_single_at_frame cut the last frame off a frame bulk with a strafe
\* setting, in a script with a comment line
C27_Witness ==
    /\ last.op = "split_single_at_frame"
    /\ Len(hltas) = Len(last.before) + 1
    /\ \E i \in DOMAIN hltas : ~IsFrameBulk(hltas[i])
    /\ last.ret[1] > 0
    /\ hltas[last.ret[1] + 1].movement # None
    /\ hltas[last.ret[1] + 1].frame_count = 1
    /\ hltas[last.ret[1]].movement # None

(***************************************************************************)
(* The capture module (src/modules/capture/mod.rs).  STATE is a cell that  *)
(* panics on a borrow_mut taken while another one is live.  A handler runs *)
(* on a machine [state, held, events, panicked]: the value of STATE,       *)
(* whether its borrow is live, what the handler did, and whether it        *)
(* panicked.  Times are in ticks of half a video frame; samples are in     *)
(* halves, with one half sample played a tick.                             *)
(***************************************************************************)
MaxFrameTime == 3           \* longest accumulated frame time, in ticks

time_base == 2              \* Recorder.time_base: one video frame, in ticks

\* (width, height) of the game window: even, odd, and another even one
Resolutions == {<<2, 2>>, <<3, 2>>, <<4, 2>>}

Recording(recorder) == [state |-> "Recording", recorder |-> recorder]

Event(m, ev) == [m EXCEPT !.events = Append(@, ev)]

borrow_mut(m) ==
    IF m.held
    THEN [Event(m, [ev |-> "BorrowMutError"]) EXCEPT !.panicked = TRUE]
    ELSE [m EXCEPT !.held = TRUE]

drop(m) == [m EXCEPT !.held = FALSE]

\* `*state = new`: the old value is dropped as it is
Assign(m, new) == [m EXCEPT !.state = new]

\* State::set
set(m, new) ==
    IF m.state.state = "Recording"
    THEN Assign(Event(m, [ev |-> "muxer.close"]), new)
    ELSE Assign(m, new)

record_last_frame_whole(m, vulkan) ==
    LET recorder == m.state.recorder IN
    IF recorder.last_frame_time = None
    THEN [m |-> m, ok |-> TRUE, ret |-> None]
    ELSE LET last_frame_time == recorder.last_frame_time[1]
             remainder == recorder.remainder + last_frame_time
             count == IF remainder + time_base < 0 THEN 0
                      ELSE (remainder + time_base) \div time_base
             taken == [recorder EXCEPT !.last_frame_time = None,
                                       !.remainder = remainder - count * time_base]
             recorded == Event(Assign(m, Recording(taken)),
                               [ev |-> "record_last_frame", frames |-> count,
                                remainder |-> taken.remainder])
         IN  IF count = 0
             THEN [m |-> recorded, ok |-> TRUE, ret |-> Some(last_frame_time)]
             ELSE [m |-> Event(recorded, [ev |-> "acquire_and_capture"]),
                   ok |-> vulkan, ret |-> Some(last_frame_time)]

\* record_last_frame on the recorder of m.state; vulkan: acquire_and_capture
\* succeeds.  remainder is kept in ticks, so that 0.5 is time_base \div 2;
\* `as usize` truncates towards zero and turns a negative value into 0.
record_last_frame(m, vulkan) ==
    LET recorder == m.state.recorder IN
    IF recorder.last_frame_time = None
    THEN [m |-> m, ok |-> TRUE, ret |-> None]
    ELSE LET last_frame_time == recorder.last_frame_time[1]
             remainder == recorder.remainder + last_frame_time
             count == IF remainder + time_base \div 2 < 0 THEN 0
                      ELSE (remainder + time_base \div 2) \div time_base
             taken == [recorder EXCEPT !.last_frame_time = None,
                                       !.remainder = remainder - count * time_base]
             recorded == Event(Assign(m, Recording(taken)),
                               [ev |-> "record_last_frame", frames |-> count,
                                remainder |-> taken.remainder])
         IN  IF count = 0
             THEN [m |-> recorded, ok |-> TRUE, ret |-> Some(last_frame_time)]
             ELSE [m |-> Event(recorded, [ev |-> "acquire_and_capture"]),
                   ok |-> vulkan, ret |-> Some(last_frame_time)]

\* capture_sound; samples.floor() and samples.ceil() are taken on half
\* samples.  S_PaintChannels calls back on_s_transfer_stereo_16, which takes
\* the borrow and releases it.
capture_sound(m, time, mode) ==
    LET borrowed == borrow_mut(m) IN
    IF borrowed.panicked THEN borrowed ELSE
    LET recorder == borrowed.state.recorder
        samples == time + recorder.sound_remainder
        samples_rounded == IF mode = "Normal" THEN 2 * (samples \div 2)
                           ELSE 2 * ((samples + 1) \div 2)
        painted == [recorder EXCEPT !.sound_remainder = samples - samples_rounded]
        released == drop(Assign(borrowed, Recording(painted)))
    IN  Event(drop(borrow_mut(released)), [ev |-> "S_PaintChannels"])

\* cap_stop, entered with the machine the caller left
cap_stop(m, vulkan) ==
    LET borrowed == borrow_mut(m) IN
    IF borrowed.panicked THEN borrowed ELSE
    IF borrowed.state.state # "Recording" THEN drop(set(borrowed, NoCapture)) ELSE
    LET rec == record_last_frame(borrowed, vulkan) IN
    IF ~rec.ok THEN drop(Assign(rec.m, NoCapture)) ELSE
    LET last_frame_time == IF rec.ret = None THEN 0 ELSE rec.ret[1]
        sounded == capture_sound(drop(rec.m), last_frame_time, "Remaining")
    IN  IF sounded.panicked THEN sounded ELSE drop(set(borrow_mut(sounded), NoCapture))

\* what the engine and the drivers answer during one capture_frame
Engine ==
    [enabled : BOOLEAN, resolution : Resolutions, vulkan_init : BOOLEAN,
     muxer : BOOLEAN, vulkan : BOOLEAN, opengl_init : BOOLEAN, capture : BOOLEAN]

CaptureThisFrame_counted(m, e) ==
    LET recorder == m.state.recorder IN
    IF <<recorder.width, recorder.height>> # e.resolution THEN cap_stop(m, e.vulkan) ELSE
    IF ~recorder.opengl /\ ~e.opengl_init THEN cap_stop(drop(m), e.vulkan) ELSE
    LET ready == Assign(m, Recording([recorder EXCEPT !.opengl = TRUE])) IN
    IF e.capture THEN drop(ready) ELSE
    LET failed == Event(ready, [ev |-> "capture failed"])
        counted == [failed.state.recorder EXCEPT !.last_frame_time = Some(time_base)]
    IN  cap_stop(drop(Assign(failed, Recording(counted))), e.vulkan)

\* capture_frame from "Check for resolution changes" on; m holds the borrow
CaptureThisFrame(m, e) ==
    LET recorder == m.state.recorder IN
    IF <<recorder.width, recorder.height>> # e.resolution THEN cap_stop(m, e.vulkan) ELSE
    IF ~recorder.opengl /\ ~e.opengl_init THEN cap_stop(drop(m), e.vulkan) ELSE
    LET ready == Assign(m, Recording([recorder EXCEPT !.opengl = TRUE])) IN
    IF e.capture THEN drop(ready) ELSE
    LET failed == Event(ready, [ev |-> "capture failed"])
        cleared == [failed.state.recorder EXCEPT !.last_frame_time = None]
    IN  cap_stop(drop(Assign(failed, Recording(cleared))), e.vulkan)

\* capture_frame from "Now that we have the duration of the last frame" on
RecordAndCapture(m, e) ==
    LET rec == record_last_frame(m, e.vulkan) IN
    IF ~rec.ok THEN drop(Assign(rec.m, NoCapture)) ELSE
    IF rec.ret = None THEN CaptureThisFrame(rec.m, e) ELSE
    LET sounded == capture_sound(drop(rec.m), rec.ret[1], "Normal") IN
    IF sounded.panicked THEN sounded
    ELSE CaptureThisFrame(borrow_mut(sounded), e)

capture_frame(m, e) ==
    IF ~e.enabled THEN m ELSE
    LET borrowed == borrow_mut(m) IN
    IF borrowed.state.state = "Idle" THEN drop(borrowed) ELSE
    IF borrowed.state.state = "Recording" THEN RecordAndCapture(borrowed, e) ELSE
    IF e.resolution[1] % 2 # 0 \/ e.resolution[2] % 2 # 0 \/ ~e.vulkan_init \/ ~e.muxer
    THEN drop(Assign(borrowed, NoCapture))
    ELSE LET recorder == [width |-> e.resolution[1], height |-> e.resolution[2],
                          remainder |-> 0, last_frame_time |-> None,
                          sound_remainder |-> 0, opengl |-> FALSE]
         IN  RecordAndCapture(Assign(borrowed, Recording(recorder)), e)

\* the machine a handler called by the engine starts on
Entered == [state |-> cap, held |-> FALSE, events |-> <<>>, panicked |-> FALSE]

\* the handler op ran to the machine m; a panic ends the game
Handled(op, m) ==
    /\ IF last = NoCall THEN TRUE ELSE ~last.panicked
    /\ cap' = m.state
    /\ last' = [op |-> op, events |-> m.events, panicked |-> m.panicked, before |-> cap]
    /\ UNCHANGED <<prefix, hltas, frames, last_mutation_frames, generation,
                   temperature, current_iterations, iter, clients, tags, steps>>

cap_start_again(m, enabled) ==
    IF ~enabled THEN m ELSE drop(Assign(borrow_mut(m), [state |-> "Starting"]))

cap_start(m, enabled) ==
    IF ~enabled THEN m ELSE
    IF m.state.state # "Idle" THEN drop(borrow_mut(m))
    ELSE drop(Assign(borrow_mut(m), [state |-> "Starting"]))

time_passed(m, host_frametime) ==
    IF m.state.state # "Recording" THEN drop(borrow_mut(m)) ELSE
    LET recorder == m.state.recorder
        last_frame_time == IF recorder.last_frame_time = None THEN 0
                           ELSE recorder.last_frame_time[1]
    IN  drop(Assign(borrow_mut(m),
                    Recording([recorder EXCEPT
                        !.last_frame_time = Some(last_frame_time + host_frametime)])))

on_cl_disconnect(m, demoplayback, demonum, playdemostop, vulkan) ==
    IF demoplayback = 0 \/ demonum # -1 \/ ~playdemostop THEN m ELSE cap_stop(m, vulkan)

CaptureInit ==
    /\ hltas = <<>>
    /\ last = NoCall
    /\ EditorIdle

\* the commands and the hooks the engine calls, with what the engine and the
\* drivers answer; host_frametime is never negative
CaptureNext ==
    \/ \E enabled \in BOOLEAN : Handled("cap_start", cap_start(Entered, enabled))
    \/ \E vulkan \in BOOLEAN : Handled("cap_stop", cap_stop(Entered, vulkan))
    \/ \E e \in Engine : Handled("capture_frame", capture_frame(Entered, e))
    \/ \E host_frametime \in 0..MaxFrameTime :
          \E m \in {time_passed(Entered, host_frametime)} :
             /\ m.state.state = "Recording" =>
                   m.state.recorder.last_frame_time[1] <= MaxFrameTime
             /\ Handled("time_passed", m)
    \/ \E demoplayback \in {0, 1}, demonum \in {-1, 0}, playdemostop \in BOOLEAN,
          vulkan \in BOOLEAN :
          Handled("on_cl_disconnect",
                  on_cl_disconnect(Entered, demoplayback, demonum, playdemostop, vulkan))

CaptureSpec == CaptureInit /\ [][CaptureNext]_vars

(***************************************************************************)
(* Claims about the capture module (checked under CaptureSpec).            *)
(***************************************************************************)
\* what the last handler did
Events == IF last = NoCall THEN <<>> ELSE last.events

Happened(ev) == \E i \in DOMAIN Events : Events[i].ev = ev

\* C28: no handler of the capture module takes the borrow of STATE while it
\* is held: no borrow_mut ends in a BorrowMutError, on any path through
\* capture_frame, the path that detects a resolution change included.
C28_NoDoubleBorrow == ~Happened("BorrowMutError")

C30_NoAcquireAfterFailure ==
    \A i \in DOMAIN Events :
       Events[i].ev = "capture failed" =>
          /\ cap.state = "Idle"
          /\ \A j \in DOMAIN Events : j > i => Events[j].ev # "acquire_and_capture"

\* the capture failed in a frame that had recorded the last frame with an
\* acquire, and the stop that followed closed the muxer
C30_Witness ==
    \E i, j, k \in DOMAIN Events :
       /\ i < j /\ j < k
       /\ Events[i].ev = "acquire_and_capture"
       /\ Events[j].ev = "capture failed"
       /\ Events[k].ev = "muxer.close"
       /\ last.op = "capture_frame"
       /\ last.before.state = "Recording"

\* the last handler found STATE Recording and left it in another state
LeftRecording ==
    /\ last # NoCall
    /\ last.before.state = "Recording"
    /\ cap.state # "Recording"

\* C31: whenever STATE leaves Recording, by cap_stop or by an error inside
\* capture_frame or cap_stop, the muxer of the recorder is closed by
\* State::set on the way to Idle.
C31_ClosedOnLeaving == LeftRecording => (cap.state = "Idle" /\ Happened("muxer.close"))

\* C32: the state goes Idle, Starting, Recording.  cap_start changes STATE
\* only from Idle, to Starting, and changes nothing in Starting or Recording
\* or when the module is disabled; Starting is entered only so; Recording is
\* entered only by capture_frame from Starting; and a cap_stop that returns
\* leaves STATE Idle whatever it was.
C32_Ordered ==
    /\ cap_start(Entered, FALSE).state = cap
    /\ cap.state # "Idle" => cap_start(Entered, TRUE).state = cap
    /\ cap.state = "Idle" => cap_start(Entered, TRUE).state = [state |-> "Starting"]
    /\ \A vulkan \in BOOLEAN :
          /\ ~cap_stop(Entered, vulkan).panicked
          /\ cap_stop(Entered, vulkan).state = NoCapture
    /\ last # NoCall =>
          /\ (cap.state = "Starting" /\ last.before.state # "Starting") =>
                (last.op = "cap_start" /\ last.before.state = "Idle")
          /\ (cap.state = "Recording" /\ last.before.state # "Recording") =>
                (last.op = "capture_frame" /\ last.before.state = "Starting")
          /\ (last.op \in {"cap_start", "time_passed"} /\ last.before.state # "Idle") =>
                cap.state = last.before.state
          /\ (last.op = "cap_stop" /\ ~last.panicked) => cap.state = "Idle"

\* a capture_frame started the recording that cap_start had asked for
C32_Witness ==
    /\ last.op = "capture_frame"
    /\ last.before.state = "Starting"
    /\ cap.state = "Recording"
    /\ cap_start(Entered, TRUE).state = cap

(***************************************************************************)
(* The leading segment of the body (checked under FaultSpec, and under     *)
(* EditorSpec for the sessions whose workers answer with what they got).   *)
(***************************************************************************)
\* lines[0] is a frame bulk without a console command
LeadingSegment(lines) ==
    /\ Len(lines) > 0
    /\ IsFrameBulk(lines[1])
    /\ lines[1].console_command = None

\* the accept path drained a body whose lines[0] is no frame bulk
AcceptUnreachable(rcpt) ==
    /\ rcpt.after.panicked
    /\ Len(rcpt.payload) > Len(prefix) + 1
    /\ ~IsFrameBulk(rcpt.payload[Len(prefix) + 1])

\* C33: in every state of the Editor the first line of the body is a frame
\* bulk without a console command, and no accepted result reaches the
\* unreachable!() arm of the accept path.
C33_LeadingSegment ==
    /\ LeadingSegment(hltas)
    /\ \A i \in DOMAIN Receipts : ~AcceptUnreachable(Receipts[i])

====
